---------------------------- MODULE Spec2Model ----------------------------
(***************************************************************************)
(* A model of the phase-4 analysis core of the PlantUML dataset scripts:   *)
(* the classifier (classify_diagrams.py), the element extractor            *)
(* (count_elements.py), the relationship counter (count_relationships.py)  *)
(* and the consistency validator (validate_consistency.py), with the       *)
(* shared preprocessing (common/preprocessing.py).                         *)
(*                                                                         *)
(* Text is a sequence of lines and a line is a sequence of one-character   *)
(* strings, so that substring search, case folding and the scanners are    *)
(* computed, not assumed.  Every component has its own specification       *)
(* (SpecClassify, SpecElements, SpecRelationships, SpecValidate); the      *)
(* variables a specification does not use stay at Idle.                    *)
(*                                                                         *)
(* Numbers: the scripts compute in binary floating point.  The model       *)
(* computes the same quantities exactly, as integers in a stated unit      *)
(* (feature weights in tenths, raw scores in millionths, consistency       *)
(* scores and rounded confidences in ten-thousandths).                     *)
(***************************************************************************)
EXTENDS Integers, Sequences, FiniteSets, TLC

VARIABLES
    pc,                 \* position of the component that is running
    text,               \* the raw diagram text: a sequence of lines
    clean_content,      \* the text after preprocess_content
    primary_type,       \* the primary type handed to extractor / counter / validator
    features,           \* classify_diagram: the extracted features
    raw_scores,         \* classify_diagram: raw score per type
    normalized_scores,  \* classify_diagram: normalized confidence per type
    result,             \* classify_diagram's result
    elements,           \* count_elements: element type -> set of canonical names
    declared_names,     \* count_elements: case-folded names and aliases seen so far
    alias_map,          \* count_elements: case-folded alias -> canonical name
    inventory,          \* the element inventory: element type -> count
    relationships,      \* count_relationships' result: category -> count
    confidence,         \* the classification confidence handed to the validator
    validation,         \* validate_file's result
    batch,              \* the diagrams of one run of the phases, in the order they are processed
    reports,            \* the entries written so far, one per processed diagram
    input_queue,        \* blob extraction: the queue from the main process to the workers
    output_queue,       \* blob extraction: the queue from the workers to the writer
    main,               \* blob extraction: the main process, which feeds the input queue
    workers,            \* blob extraction: the state of each worker process
    writer              \* blob extraction: the writer process and what it has written

\* The variables by the component that writes them.
classifyVars  == <<features, raw_scores, normalized_scores, result>>
elementVars   == <<elements, declared_names, alias_map, inventory>>
validateVars  == <<confidence, validation>>
batchVars     == <<batch, reports>>
extractVars   == <<input_queue, output_queue, main, workers, writer>>

vars == <<pc, text, clean_content, primary_type, classifyVars, elementVars,
          relationships, validateVars, batchVars, extractVars>>

\* The value of a variable the running specification does not use.
Idle == "idle"

\* The blob extraction is not running.
ExtractIdle ==
    /\ input_queue = Idle /\ output_queue = Idle
    /\ main = Idle /\ workers = Idle /\ writer = Idle

\* Python's None.
None == "None"

-----------------------------------------------------------------------------
(* Bounds of the model *)

\* Longest text, in lines, that SpecClassify classifies.
MaxLines == 2

\* Longest text, in lines, that SpecElements counts the elements of.
MaxElementLines == 3

\* The longest text, in lines, of the relationship counter's specification.
MaxRelationLines == 2

\* The longest text of SpecShorthand, in lines.
MaxShorthandLines == 2

\* The most lines between @startuml and @enduml in a diagram of SpecPipeline.
MaxPipelineLines == 2

\* The longest text of SpecPreprocess, in lines.
MaxPreprocessLines == 3

\* The most diagrams in one run of SpecBatch.
MaxBatch == 3

\* The longest text of SpecPrecedence, in lines.
MaxPrecedenceLines == 3

\* The largest number of worker processes of the blob extraction.
MaxWorkers == 2

\* The largest number of blobs in the input of the blob extraction.
MaxBlobs == 3

\* The longest text of SpecBodies, in lines.
MaxBodyLines == 4

\* The longest line given to remove_inline_comment, in characters.
MaxInlineLen == 5

\* The largest count of one element type in the inventories that are validated.
MaxCount == 2

-----------------------------------------------------------------------------
(* Strings as sequences of characters *)

RECURSIVE SumSeq(_)
SumSeq(s) == IF s = << >> THEN 0 ELSE Head(s) + SumSeq(Tail(s))

RECURSIVE SeqsUpTo(_, _)
\* All sequences over S of length at most n.
SeqsUpTo(S, n) ==
    IF n = 0 THEN { << >> }
    ELSE LET shorter == SeqsUpTo(S, n - 1)
         IN  shorter \cup { Append(s, x) : s \in { t \in shorter : Len(t) = n - 1 }, x \in S }

\* str.lower() on one character (ASCII letters; every other character is kept).
LowerChar(c) ==
    CASE c = "A" -> "a" [] c = "B" -> "b" [] c = "C" -> "c" [] c = "D" -> "d"
      [] c = "E" -> "e" [] c = "F" -> "f" [] c = "G" -> "g" [] c = "H" -> "h"
      [] c = "I" -> "i" [] c = "J" -> "j" [] c = "K" -> "k" [] c = "L" -> "l"
      [] c = "M" -> "m" [] c = "N" -> "n" [] c = "O" -> "o" [] c = "P" -> "p"
      [] c = "Q" -> "q" [] c = "R" -> "r" [] c = "S" -> "s" [] c = "T" -> "t"
      [] c = "U" -> "u" [] c = "V" -> "v" [] c = "W" -> "w" [] c = "X" -> "x"
      [] c = "Y" -> "y" [] c = "Z" -> "z" [] OTHER -> c

\* str.lower()
lower(s) == [i \in 1..Len(s) |-> LowerChar(s[i])]

\* s[i:i+len(p)] == p  (1-based i)
MatchAt(s, i, p) ==
    /\ i >= 1
    /\ i + Len(p) - 1 <= Len(s)
    /\ \A k \in 1..Len(p) : s[i + k - 1] = p[k]

\* Python's  needle in haystack  on strings
Contains(haystack, needle) ==
    \E i \in 1..(Len(haystack) + 1) : MatchAt(haystack, i, needle)

RECURSIVE Join(_)
\* '\n'.join(lines)
Join(lines) ==
    IF lines = << >> THEN << >>
    ELSE IF Len(lines) = 1 THEN lines[1]
    ELSE lines[1] \o <<"\n">> \o Join(Tail(lines))

RECURSIVE SplitFrom(_, _, _)
SplitFrom(s, i, cur) ==
    IF i > Len(s) THEN << cur >>
    ELSE IF s[i] = "\n" THEN << cur >> \o SplitFrom(s, i + 1, << >>)
    ELSE SplitFrom(s, i + 1, Append(cur, s[i]))

\* content.split('\n')
Split(s) == SplitFrom(s, 1, << >>)

\* The characters Python's \s matches among those the model writes.
IsSpace(c) == c \in {" ", "\t", "\n"}

RECURSIVE LStrip(_)
\* str.lstrip()
LStrip(s) == IF s # << >> /\ IsSpace(Head(s)) THEN LStrip(Tail(s)) ELSE s

-----------------------------------------------------------------------------
(* common/preprocessing.py *)

\* A cut that keeps the blanks before the comment marker.
RStripNone(r) == r

RECURSIVE RStripBlanks(_)
\* while result and result[-1] in (' ', '\t'): result.pop()
RStripBlanks(r) ==
    IF r # << >> /\ r[Len(r)] \in {" ", "\t"}
    THEN RStripBlanks(SubSeq(r, 1, Len(r) - 1))
    ELSE r

RECURSIVE InlineCommentScan(_, _, _, _)
\* The while loop of remove_inline_comment; i is 1-based.
InlineCommentScan(line, i, res, in_string) ==
    IF i > Len(line) THEN res
    ELSE LET char == line[i] IN
         IF char = "\""
         THEN InlineCommentScan(line, i + 1, Append(res, char), ~in_string)
         ELSE IF char = "'" /\ ~in_string
         THEN IF i = 1
              THEN res
              ELSE IF res # << >> /\ res[Len(res)] \in {" ", "\t"}
              THEN IF i + 1 > Len(line)
                   THEN RStripBlanks(res)
                   ELSE IF line[i + 1] \in {" ", "\t"}
                   THEN RStripBlanks(res)
                   ELSE InlineCommentScan(line, i + 1, Append(res, char), in_string)
              ELSE InlineCommentScan(line, i + 1, Append(res, char), in_string)
         ELSE InlineCommentScan(line, i + 1, Append(res, char), in_string)

remove_inline_comment(line) == InlineCommentScan(line, 1, << >>, FALSE)

RECURSIVE FindFrom(_, _, _)
\* Least j >= i with s[j:] starting with p, or 0.
FindFrom(s, i, p) ==
    IF i + Len(p) - 1 > Len(s) THEN 0
    ELSE IF MatchAt(s, i, p) THEN i
    ELSE FindFrom(s, i + 1, p)

RECURSIVE StripBlockComments(_, _)
\* re.sub(r"/'.*?'/", "", content, flags=re.DOTALL), scanning from i.
StripBlockComments(s, i) ==
    IF i > Len(s) THEN << >>
    ELSE IF MatchAt(s, i, <<"/", "'">>)
         THEN LET close == FindFrom(s, i + 2, <<"'", "/">>) IN
              IF close = 0
              THEN << s[i] >> \o StripBlockComments(s, i + 1)
              ELSE StripBlockComments(s, close + 2)
         ELSE << s[i] >> \o StripBlockComments(s, i + 1)

\* re.match(r"^\s*'+", line)
IsCommentLine(line) ==
    LET rest == LStrip(line) IN rest # << >> /\ Head(rest) = "'"

\* strip_comments: block comments on the whole text, then line by line.
strip_comments(lines) ==
    LET split == Split(StripBlockComments(Join(lines), 1)) IN
    [i \in 1..Len(split) |->
        IF IsCommentLine(split[i]) THEN << >> ELSE remove_inline_comment(split[i])]

\* The directive words of the single-line regexes, as character sequences.
DirectiveWords == [
    skinparam |-> <<"s","k","i","n","p","a","r","a","m">>,
    hide      |-> <<"h","i","d","e">>,
    show      |-> <<"s","h","o","w">>,
    define    |-> <<"!","d","e","f","i","n","e">>,
    include   |-> <<"!","i","n","c","l","u","d","e">>,
    unquoted  |-> <<"!","u","n","q","u","o","t","e","d">>,
    title     |-> <<"t","i","t","l","e">>,
    caption   |-> <<"c","a","p","t","i","o","n">>,
    header    |-> <<"h","e","a","d","e","r">>,
    footer    |-> <<"f","o","o","t","e","r">>,
    left      |-> <<"l","e","f","t">>,
    right     |-> <<"r","i","g","h","t">>,
    center    |-> <<"c","e","n","t","e","r">> ]

\* The opening and closing words of the block forms of
\* strip_preprocessor_directives, lower case.
BlockWords == [
    procedure    |-> <<"!","p","r","o","c","e","d","u","r","e">>,
    endprocedure |-> <<"!","e","n","d","p","r","o","c","e","d","u","r","e">>,
    function     |-> <<"!","f","u","n","c","t","i","o","n">>,
    endfunction  |-> <<"!","e","n","d","f","u","n","c","t","i","o","n">> ]

\* A line of whitespace only (the empty line included).
IsBlankLine(line) == \A j \in 1..Len(line) : IsSpace(line[j])

\* How one line stands to  \s*WORD\s+.*  for a WORD of words: "arg" when the
\* word is followed by whitespace and more text, "bare_blank" when it is
\* followed by whitespace to the end of the line, "bare" when the line ends
\* with the word, "none" otherwise.  With ignore_case the regex carries
\* re.IGNORECASE.
Mark(line, words, ignore_case) ==
    LET rest == LStrip(line)
        cmp  == IF ignore_case THEN lower(rest) ELSE rest
        hits == { w \in words : MatchAt(cmp, 1, w) }
    IN  IF hits = {} THEN "none"
        ELSE LET w     == CHOOSE x \in hits : TRUE
                 after == SubSeq(rest, Len(w) + 1, Len(rest))
             IN  IF after = << >> THEN "bare"
                 ELSE IF ~IsSpace(after[1]) THEN "none"
                 ELSE IF IsBlankLine(after) THEN "bare_blank"
                 ELSE "arg"

\* A line that matches  ^\s*WORD\s+.*$  by itself.
StartsWithWord(line, words, ignore_case) ==
    Mark(line, words, ignore_case) \in {"arg", "bare_blank"}

\* The first line from i on that is not blank, or 0.
FirstNonBlank(lines, i) ==
    LET later == { k \in i..Len(lines) : ~IsBlankLine(lines[k]) }
    IN  IF later = {} THEN 0 ELSE CHOOSE k \in later : \A j \in later : k <= j

RECURSIVE SubLines(_, _, _)
\* re.sub(r'^\s*WORD\s+.*$', '', content, flags=re.MULTILINE) from line i on,
\* marks[k] being the Mark of line k.  \s matches newlines: the ^\s* of a
\* match takes the blank lines just before the line with the word, and the \s+
\* after a word that ends its line takes the newline, the blank lines that
\* follow and, with .*, the next line that is not blank.  One empty line is
\* left for the lines of the match.
SubLines(lines, marks, i) ==
    IF i > Len(lines) THEN << >>
    ELSE LET k == FirstNonBlank(lines, i) IN
         IF k = 0 \/ marks[k] = "none" \/ (marks[k] = "bare" /\ k = Len(lines))
         THEN << lines[i] >> \o SubLines(lines, marks, i + 1)
         ELSE IF marks[k] = "arg"
         THEN << << >> >> \o SubLines(lines, marks, k + 1)
         ELSE LET m == FirstNonBlank(lines, k + 1) IN
              IF m = 0 THEN << << >> >>
              ELSE << << >> >> \o SubLines(lines, marks, m + 1)

\* One re.sub of a single-line form over the whole text.
SubDirective(lines, words, ignore_case) ==
    SubLines(lines, [k \in 1..Len(lines) |-> Mark(lines[k], words, ignore_case)], 1)

\* strip_styling_blocks, single-line forms: skinparam lines, then hide/show
\* lines.  (The block forms need an opening brace after "skinparam X" /
\* "style X".)
strip_styling_blocks(lines) ==
    SubDirective(SubDirective(lines, {DirectiveWords.skinparam}, TRUE),
                 {DirectiveWords.hide, DirectiveWords.show}, TRUE)

\* \w among the characters the model writes.
IsWordChar(c) ==
    LowerChar(c) \in { "a","b","c","d","e","f","g","h","i","j","k","l","m","n","o","p","q",
                       "r","s","t","u","v","w","x","y","z","0","1","2","3","4","5","6","7",
                       "8","9","_" }

RECURSIVE StripDirectiveBlocks(_, _, _, _, _)
\* re.sub(OPEN + r'\b.*?' + CLOSE, '', content, flags=re.DOTALL | re.IGNORECASE),
\* scanning from i; ls is content.lower().
StripDirectiveBlocks(s, ls, i, open, close) ==
    IF i > Len(s) THEN << >>
    ELSE IF /\ MatchAt(ls, i, open)
            /\ (i + Len(open) > Len(s) \/ ~IsWordChar(s[i + Len(open)]))
         THEN LET end == FindFrom(ls, i + Len(open), close) IN
              IF end = 0
              THEN << s[i] >> \o StripDirectiveBlocks(s, ls, i + 1, open, close)
              ELSE StripDirectiveBlocks(s, ls, end + Len(close), open, close)
         ELSE << s[i] >> \o StripDirectiveBlocks(s, ls, i + 1, open, close)

\* The two block forms on the whole text: !procedure ... !endprocedure, then
\* !function ... !endfunction.  What follows the closing word on its line stays.
StripBlocks(lines) ==
    LET s == Join(lines)
        p == StripDirectiveBlocks(s, lower(s), 1, BlockWords.procedure, BlockWords.endprocedure)
        f == StripDirectiveBlocks(p, lower(p), 1, BlockWords.function, BlockWords.endfunction)
    IN  IF lines = << >> THEN lines ELSE Split(f)

\* strip_preprocessor_directives: !define lines, !include lines, the two block
\* forms, !unquoted lines (case-sensitive).  (The !$variable form needs "!$".)
strip_preprocessor_directives(lines) ==
    SubDirective(
        StripBlocks(
            SubDirective(SubDirective(lines, {DirectiveWords.define}, FALSE),
                         {DirectiveWords.include}, FALSE)),
        {DirectiveWords.unquoted}, FALSE)

\* The words of the note regexes, lower case.
NoteWords == [
    note |-> <<"n","o","t","e">>,
    end  |-> <<"e","n","d">>,
    of   |-> <<"o","f">>,
    positions |-> { <<"l","e","f","t">>, <<"r","i","g","h","t">>, <<"t","o","p">>,
                    <<"b","o","t","t","o","m">>, <<"o","v","e","r">> } ]

\* The index after the longest run of whitespace that starts at s[i]
\* (i when s[i] is not whitespace): where a greedy \s* stops.
SkipSpace(s, i) ==
    LET stops == { k \in i..Len(s) : ~IsSpace(s[k]) }
    IN  IF stops = {} THEN Len(s) + 1 ELSE CHOOSE k \in stops : \A j \in stops : k <= j

\* The index after the longest run of \w that starts at s[i].
SkipWord(s, i) ==
    LET stops == { k \in i..Len(s) : ~IsWordChar(s[k]) }
    IN  IF stops = {} THEN Len(s) + 1 ELSE CHOOSE k \in stops : \A j \in stops : k <= j

\* The index after a position word at ls[i], or i when there is none.
SkipPosition(ls, i) ==
    LET hits == { w \in NoteWords.positions : MatchAt(ls, i, w) }
    IN  IF hits = {} THEN i ELSE i + Len(CHOOSE w \in hits : TRUE)

\* The index after  \s+of\s+\w+  at ls[i], or 0 when it does not match there.
SkipOf(ls, i) ==
    LET o == SkipSpace(ls, i)
        n == SkipSpace(ls, o + 2)
        e == SkipWord(ls, n)
    IN  IF o > i /\ MatchAt(ls, o, NoteWords.of) /\ n > o + 2 /\ e > n THEN e ELSE 0

\* \s*\n  matches at s[i]: the run of whitespace from s[i] holds a newline.
NewlineInRun(s, i) == \E k \in i..(SkipSpace(s, i) - 1) : s[k] = "\n"

\* The opening of a multi-line note matches with "note" at ls[i]:
\*   \bnote\s+(?:left|right|top|bottom|over)?(?:\s+of\s+\w+)?\s*\n
\* Each optional group is taken or left, as the backtracking of the regex allows.
NoteOpens(ls, i) ==
    LET j == i + 4
        r == SkipSpace(ls, j)
        p == SkipPosition(ls, r)
    IN  /\ MatchAt(ls, i, NoteWords.note)
        /\ (i = 1 \/ ~IsWordChar(ls[i - 1]))
        /\ r > j
        /\ \/ NewlineInRun(ls, j + 1)
           \/ (p > r /\ NewlineInRun(ls, p))
           \/ (p > r /\ SkipOf(ls, p) # 0 /\ NewlineInRun(ls, SkipOf(ls, p)))
           \/ (r > j + 1 /\ SkipOf(ls, r - 1) # 0 /\ NewlineInRun(ls, SkipOf(ls, r - 1)))

\* The index after  \bend\s+note\b  at ls[i], or 0 when it does not match there.
EndNoteAt(ls, i) ==
    LET n == SkipSpace(ls, i + 3) IN
    IF /\ MatchAt(ls, i, NoteWords.end)
       /\ (i = 1 \/ ~IsWordChar(ls[i - 1]))
       /\ n > i + 3
       /\ MatchAt(ls, n, NoteWords.note)
       /\ (n + 4 > Len(ls) \/ ~IsWordChar(ls[n + 4]))
    THEN n + 4 ELSE 0

\* The index after the first  end note  at or after ls[i], or 0.
FirstEndNote(ls, i) ==
    LET ends == { k \in i..Len(ls) : EndNoteAt(ls, k) # 0 }
    IN  IF ends = {} THEN 0
        ELSE EndNoteAt(ls, CHOOSE k \in ends : \A j \in ends : k <= j)

RECURSIVE StripNoteBlocks(_, _, _)
\* Step 2 of strip_notes: re.sub of the multi-line note regex (DOTALL,
\* IGNORECASE), scanning from i; ls is content.lower().
StripNoteBlocks(s, ls, i) ==
    IF i > Len(s) THEN << >>
    ELSE IF NoteOpens(ls, i) /\ FirstEndNote(ls, i + 5) # 0
         THEN StripNoteBlocks(s, ls, FirstEndNote(ls, i + 5))
         ELSE << s[i] >> \o StripNoteBlocks(s, ls, i + 1)

\* A line that matches, by itself, the single-line note regex of step 1:
\*   \s*note\s+(?:left|right|top|bottom|over)(?:\s+of\s+\w+)?\s*:.*
SingleLineNote(line) ==
    LET ls == lower(LStrip(line))
        r  == SkipSpace(ls, 5)
        p  == SkipPosition(ls, r)
        c  == SkipSpace(ls, p)
        o  == SkipOf(ls, p)
    IN  /\ MatchAt(ls, 1, NoteWords.note)
        /\ r > 5
        /\ p > r
        /\ \/ (c <= Len(ls) /\ ls[c] = ":")
           \/ (o # 0 /\ SkipSpace(ls, o) <= Len(ls) /\ ls[SkipSpace(ls, o)] = ":")

\* A line that matches, by itself, the floating note regex of step 3:
\*   \s*note\s+"[^"]*"(?:\s+as\s+\w+)?.*
FloatingNote(line) ==
    LET ls == lower(LStrip(line))
        r  == SkipSpace(ls, 5)
    IN  /\ MatchAt(ls, 1, NoteWords.note)
        /\ r > 5
        /\ r <= Len(ls) /\ ls[r] = "\""
        /\ \E k \in (r + 1)..Len(ls) : ls[k] = "\""

\* strip_notes: single-line notes, multi-line notes, floating notes.  (A note
\* whose colon or closing quote stands on a later line is outside the model.)
strip_notes(lines) ==
    LET single == SubLines(lines, [k \in 1..Len(lines) |->
                      IF SingleLineNote(lines[k]) THEN "arg" ELSE "none"], 1)
        s      == Join(single)
        multi  == Split(StripNoteBlocks(s, lower(s), 1))
    IN  SubLines(multi, [k \in 1..Len(multi) |->
                      IF FloatingNote(multi[k]) THEN "arg" ELSE "none"], 1)

\* line with an optional leading  (left|right|center)?\s*  removed.
DropPosition(line) ==
    LET rest == LStrip(line)
        pos  == { w \in {DirectiveWords.left, DirectiveWords.right, DirectiveWords.center} :
                    MatchAt(lower(rest), 1, w) }
    IN  IF pos = {} THEN rest
        ELSE LET w == CHOOSE x \in pos : TRUE
             IN  LStrip(SubSeq(rest, Len(w) + 1, Len(rest)))

\* The Mark of a line for  \s*(left|right|center)?\s*(header|footer)\s+.* :
\* with the position word taken, or without it.
MarkHeaderFooter(line) ==
    LET words   == {DirectiveWords.header, DirectiveWords.footer}
        dropped == Mark(DropPosition(line), words, TRUE)
    IN  IF dropped # "none" THEN dropped ELSE Mark(line, words, TRUE)

\* strip_footer_header, single-line forms in the order of the source:
\* header/footer lines with an optional position, title lines, caption lines
\* (all with re.IGNORECASE).  (The block forms need "endheader" / "endfooter" /
\* "endlegend".)
strip_footer_header(lines) ==
    SubDirective(
        SubDirective(
            SubLines(lines, [k \in 1..Len(lines) |-> MarkHeaderFooter(lines[k])], 1),
            {DirectiveWords.title}, TRUE),
        {DirectiveWords.caption}, TRUE)

\* preprocess_content: the stages in the order of the pipeline.  The sprite
\* stage removes nothing from a text without the word "sprite".
preprocess_content(lines) ==
    strip_footer_header(
        strip_notes(
            strip_preprocessor_directives(
                strip_styling_blocks(
                    strip_comments(lines)))))

-----------------------------------------------------------------------------
(* SpecPreprocess: preprocess_content on every text of at most
   MaxPreprocessLines lines of PreprocessLines, and once more on its result. *)

\* The lines SpecPreprocess builds its texts from.
PreprocessLines == {
    <<"!","p","r","o","c","e","d","u","r","e"," ","p","(",")">>,  \* !procedure p()
    <<"!","e","n","d","p","r","o","c","e","d","u","r","e"," ","h","i","d","e"," ","c","i","r","c","l","e">>,  \* !endprocedure hide circle
    <<"h","i","d","e"," ","c","i","r","c","l","e">>,  \* hide circle
    <<"c","l","a","s","s"," ","A">>,  \* class A
    <<"'"," ","c">>,  \* ' c
    <<"A"," ","-",">"," ","B"," ","'"," ","c">>,  \* A -> B ' c
    <<"/","'"," ","x">>,  \* /' x
    <<"y"," ","'","/">>,  \* y '/
    <<"t","i","t","l","e"," ","T">>,  \* title T
    <<"!","d","e","f","i","n","e"," ","X"," ","1">>,  \* !define X 1
    <<"l","e","f","t"," ","h","e","a","d","e","r"," ","h">>,  \* left header h
    <<"A"," ","-",">"," ","B"," ",":"," ","n","o","t","e">>,  \* A -> B : note
    <<"e","n","d"," ","n","o","t","e">>,  \* end note
    <<"n","o","t","e"," ","l","e","f","t"," ","o","f"," ","A">>,  \* note left of A
    <<"n","o","t","e"," ","l","e","f","t",":"," ","t">>,  \* note left: t
    <<"n","o","t","e"," ","\"","t","\""," ","a","s"," ","N">>  \* note "t" as N
}

InitPreprocess ==
    /\ pc = "preprocess"
    /\ batch = Idle /\ reports = Idle
    /\ ExtractIdle
    /\ text \in SeqsUpTo(PreprocessLines, MaxPreprocessLines)
    /\ clean_content = << >>
    /\ result = << >>
    /\ primary_type = Idle
    /\ features = Idle /\ raw_scores = Idle /\ normalized_scores = Idle
    /\ elements = Idle /\ declared_names = Idle /\ alias_map = Idle /\ inventory = Idle
    /\ relationships = Idle /\ confidence = Idle /\ validation = Idle

\* clean_content = preprocess_content(content), as every phase calls it.
Preprocess ==
    /\ pc = "preprocess"
    /\ clean_content' = preprocess_content(text)
    /\ pc' = "preprocessed"
    /\ UNCHANGED <<extractVars, batchVars, text, primary_type, features, raw_scores, normalized_scores, result,
                   elementVars, relationships, validateVars>>

\* preprocess_content called on a text that is already clean.
PreprocessAgain ==
    /\ pc = "preprocessed"
    /\ result' = preprocess_content(clean_content)
    /\ pc' = "preprocessed_again"
    /\ UNCHANGED <<extractVars, batchVars, text, clean_content, primary_type, features, raw_scores, normalized_scores,
                   elementVars, relationships, validateVars>>

NextPreprocess ==
    \/ Preprocess
    \/ PreprocessAgain

SpecPreprocess == InitPreprocess /\ [][NextPreprocess]_vars

\* C14: preprocess_content is idempotent: applied to its own result, it
\* returns that result unchanged.
C14_PreprocessIdempotent ==
    pc = "preprocessed_again" => result = clean_content

-----------------------------------------------------------------------------
(* SpecInline: remove_inline_comment on every line of at most MaxInlineLen
   characters of InlineChars. *)

\* The characters the lines of SpecInline are made of: the comment marker, the
\* double quote, a space, a tab, a carriage return and a letter.
InlineChars == {"'", "\"", " ", "\t", "\r", "a"}

InitInline ==
    /\ pc = "inline"
    /\ batch = Idle /\ reports = Idle
    /\ ExtractIdle
    /\ text \in { << line >> : line \in SeqsUpTo(InlineChars, MaxInlineLen) }
    /\ clean_content = << >>
    /\ result = << >>
    /\ primary_type = Idle
    /\ features = Idle /\ raw_scores = Idle /\ normalized_scores = Idle
    /\ elements = Idle /\ declared_names = Idle /\ alias_map = Idle /\ inventory = Idle
    /\ relationships = Idle /\ confidence = Idle /\ validation = Idle

\* cleaned = remove_inline_comment(line)
RemoveInlineComment ==
    /\ pc = "inline"
    /\ clean_content' = << remove_inline_comment(text[1]) >>
    /\ pc' = "inlined"
    /\ UNCHANGED <<extractVars, batchVars, text, primary_type, features, raw_scores, normalized_scores, result,
                   elementVars, relationships, validateVars>>

NextInline == RemoveInlineComment

SpecInline == InitInline /\ [][NextInline]_vars

\* The number of double quotes before position i of the line is odd.
InsideQuotes(line, i) ==
    Cardinality({ k \in 1..(i - 1) : line[k] = "\"" }) % 2 = 1

\* s without the characters of ws at its end.
WithoutTrailing(s, ws) ==
    LET keep == { k \in 0..Len(s) : k = 0 \/ s[k] \notin ws }
        last == CHOOSE k \in keep : \A j \in keep : j <= k
    IN  SubSeq(s, 1, last)

\* The line cut at the first position of cuts, the characters of ws removed
\* from the end of what is left; the line itself when cuts is empty.
CutAtFirst(line, cuts, ws) ==
    IF cuts = {} THEN line
    ELSE LET first == CHOOSE i \in cuts : \A j \in cuts : i <= j
         IN  WithoutTrailing(SubSeq(line, 1, first - 1), ws)

\* The whitespace characters among InlineChars.
Whitespace == {" ", "\t", "\r"}

\* The positions where the line is cut according to the statement: an
\* apostrophe outside double quotes, preceded by whitespace or first in the
\* line, and followed by whitespace or last in the line.
StatedCuts(line) ==
    { i \in 1..Len(line) :
        /\ line[i] = "'"
        /\ ~InsideQuotes(line, i)
        /\ i = 1 \/ line[i - 1] \in Whitespace
        /\ i = Len(line) \/ line[i + 1] \in Whitespace }

\* C27 as stated: the line is cut at an apostrophe exactly when the apostrophe
\* is outside double-quoted text, is preceded by whitespace or starts the line,
\* and is followed by whitespace or ends the line; what is returned is the text
\* before the cut without its trailing whitespace, and a line without such an
\* apostrophe is returned unchanged.
C27_CutIffStated ==
    pc = "inlined" =>
        clean_content[1] = CutAtFirst(text[1], StatedCuts(text[1]), Whitespace)

\* The positions where the code cuts: an apostrophe outside double quotes that
\* is first in the line, or that follows a space or a tab and is followed by a
\* space or a tab or is last in the line.
CodeCuts(line) ==
    { i \in 1..Len(line) :
        /\ line[i] = "'"
        /\ ~InsideQuotes(line, i)
        /\ \/ i = 1
           \/ /\ line[i - 1] \in {" ", "\t"}
              /\ i = Len(line) \/ line[i + 1] \in {" ", "\t"} }

\* C27: the line is cut at the first apostrophe outside double-quoted text that
\* starts the line, or that follows a space or a tab and is followed by a space
\* or a tab or ends the line; what is returned is the text before the cut
\* without its trailing spaces and tabs.  Every other apostrophe is kept, and a
\* line without such an apostrophe is returned unchanged.
C27_CutIffBlankDelimited ==
    pc = "inlined" =>
        clean_content[1] = CutAtFirst(text[1], CodeCuts(text[1]), {" ", "\t"})

\* C27 witness: in the line "'" ' the apostrophe between the double quotes is
\* kept and the one after the space cuts; the space before it is dropped.
C27_Witness ==
    /\ pc = "inlined"
    /\ text[1] = <<"\"", "'", "\"", " ", "'">>
    /\ clean_content[1] = <<"\"", "'", "\"">>

-----------------------------------------------------------------------------
(* classify/classify_diagrams.py *)

\* The markers of the non-UML families, lower case.
FamilyMarkers == [
    graphviz |-> <<"@","s","t","a","r","t","d","o","t">>,
    ditaa    |-> <<"@","s","t","a","r","t","d","i","t","a","a">>,
    salt     |-> <<"@","s","t","a","r","t","s","a","l","t">>,
    gantt    |-> <<"@","s","t","a","r","t","g","a","n","t","t">> ]

\* A faulty detect_diagram_type that searches the text as written, without
\* content.lower(): a marker in upper or mixed case goes unseen.
detect_diagram_type_case_sensitive(content) ==
    IF Contains(content, FamilyMarkers.graphviz) THEN "graphviz"
    ELSE IF Contains(content, FamilyMarkers.ditaa) THEN "ditaa"
    ELSE IF Contains(content, FamilyMarkers.salt) THEN "salt"
    ELSE IF Contains(content, FamilyMarkers.gantt) THEN "gantt"
    ELSE "uml"

\* detect_diagram_type: the if / elif chain over content.lower().
detect_diagram_type(content) ==
    LET content_lower == lower(content) IN
    IF Contains(content_lower, FamilyMarkers.graphviz) THEN "graphviz"
    ELSE IF Contains(content_lower, FamilyMarkers.ditaa) THEN "ditaa"
    ELSE IF Contains(content_lower, FamilyMarkers.salt) THEN "salt"
    ELSE IF Contains(content_lower, FamilyMarkers.gantt) THEN "gantt"
    ELSE "uml"

\* The lines SpecClassify builds its texts from.
ClassifyLines == {
    <<"@","s","t","a","r","t","u","m","l">>,  \* @startuml
    <<"@","s","t","a","r","t","d","o","t">>,  \* @startdot
    <<"@","S","t","a","r","t","D","i","t","a","a">>,  \* @StartDitaa
    <<"x","@","S","T","A","R","T","S","A","L","T","y">>,  \* x@STARTSALTy
    <<"'"," ","@","s","t","a","r","t","g","a","n","t","t">>,  \* ' @startgantt
    <<"A","l","i","c","e"," ","-",">"," ","B","o","b",":"," ","h","e","l","l","o">>,  \* Alice -> Bob: hello
    <<"A"," ","-",">"," ","B">>,  \* A -> B
    <<"c","l","a","s","s"," ","F","o","o">>,  \* class Foo
    <<"i","n","t","e","r","f","a","c","e"," ","I">>,  \* interface I
    <<"n","o","d","e"," ","N">>,  \* node N
    <<"a","r","t","i","f","a","c","t"," ","a">>,  \* artifact a
    <<"a","c","t","o","r"," ","U">>,  \* actor U
    <<"f","r","a","m","e"," ","X">>,  \* frame X
    <<"e","n","d">>,  \* end
    <<"s","t","a","t","e"," ","S">>,  \* state S
    <<"p","a","r","t","i","c","i","p","a","n","t"," ","P">>,  \* participant P
    <<"'"," ","c","l","a","s","s"," ","Z">>,  \* ' class Z
    <<"c","o","m","p","o","n","e","n","t"," ","C">>,  \* component C
    <<"u","s","e","c","a","s","e"," ","U","C">>,  \* usecase UC
    <<"r","o","b","u","s","t"," ","R">>  \* robust R
}

\* The primitive boolean features of extract_features (the re.search calls of the
\* features dict and the nested-state search) that hold of one preprocessed line:
\* each row is the set of feature regexes that match that line.
LinePrimitives(line) ==
    CASE
        line = <<"@","s","t","a","r","t","u","m","l">>   \* @startuml
            -> {}
      []
        line = <<"@","s","t","a","r","t","d","o","t">>   \* @startdot
            -> {}
      []
        line = <<"@","S","t","a","r","t","D","i","t","a","a">>   \* @StartDitaa
            -> {}
      []
        line = <<"x","@","S","T","A","R","T","S","A","L","T","y">>   \* x@STARTSALTy
            -> {}
      []
        line = <<>>   \* (empty line)
            -> {}
      []
        line = <<"A","l","i","c","e"," ","-",">"," ","B","o","b",":"," ","h","e","l","l","o">>   \* Alice -> Bob: hello
            -> {"has_sequence_message"}
      []
        line = <<"A"," ","-",">"," ","B">>   \* A -> B
            -> {}
      []
        line = <<"c","l","a","s","s"," ","F","o","o">>   \* class Foo
            -> {"has_class"}
      []
        line = <<"i","n","t","e","r","f","a","c","e"," ","I">>   \* interface I
            -> {"has_interface"}
      []
        line = <<"n","o","d","e"," ","N">>   \* node N
            -> {"has_node"}
      []
        line = <<"a","r","t","i","f","a","c","t"," ","a">>   \* artifact a
            -> {"has_artifact"}
      []
        line = <<"a","c","t","o","r"," ","U">>   \* actor U
            -> {"has_actor"}
      []
        line = <<"f","r","a","m","e"," ","X">>   \* frame X
            -> {"has_frame"}
      []
        line = <<"e","n","d">>   \* end
            -> {"has_end"}
      []
        line = <<"s","t","a","t","e"," ","S">>   \* state S
            -> {"has_state_keyword"}
      []
        line = <<"p","a","r","t","i","c","i","p","a","n","t"," ","P">>   \* participant P
            -> {"has_participant"}
      []
        line = <<"c","o","m","p","o","n","e","n","t"," ","C">>   \* component C
            -> {"has_component"}
      []
        line = <<"u","s","e","c","a","s","e"," ","U","C">>   \* usecase UC
            -> {"has_usecase"}
      []
        line = <<"r","o","b","u","s","t"," ","R">>   \* robust R
            -> {"has_robust_participant"}
      []
        line = <<"@","e","n","d","u","m","l">>   \* @enduml
            -> {}
      []
        line = <<"B","o","b"," ","-",">"," ","A","l","i","c","e",":"," ","h","i">>   \* Bob -> Alice: hi
            -> {"has_sequence_message"}
      []
        line = <<"p","a","r","t","i","c","i","p","a","n","t"," ","A","l","i","c","e">>   \* participant Alice
            -> {"has_participant"}
      []
        line = <<"s","t","a","t","e"," ","A">>   \* state A
            -> {"has_state_keyword"}
      []
        line = <<"s","t","a","t","e"," ","B">>   \* state B
            -> {"has_state_keyword"}
      []
        line = <<"A"," ","-","-",">"," ","B">>   \* A --> B
            -> {}
      []
        line = <<"[","*","]"," ","-","-",">"," ","A">>   \* [*] --> A
            -> {"has_bracket_notation", "has_state_markers"}
      []
        line = <<"[","H","]"," ","-","-",">"," ","A">>   \* [H] --> A
            -> {"has_bracket_notation", "has_history_shallow"}
      []
        line = <<"A"," ","-","-",">"," ","[","H","*","]">>   \* A --> [H*]
            -> {"has_bracket_notation", "has_history_deep"}
      []
        line = <<"c","l","a","s","s"," ","F","o","o"," ","a","s"," ","F">>   \* class Foo as F
            -> {"has_class"}
      []
        line = <<"F"," ","-","-",">"," ","B","a","r">>   \* F --> Bar
            -> {}
      []
        line = <<"c","l","a","s","s"," ","B","a","r">>   \* class Bar
            -> {"has_class"}
      []
        line = <<"p","a","r","t","i","c","i","p","a","n","t"," ","B","o","b">>   \* participant Bob
            -> {"has_participant"}
      []
        line = <<"u","s","e","c","a","s","e"," ","B","a","r">>   \* usecase Bar
            -> {"has_usecase"}

\* len(re.findall(r'-+>', line)): every '>' that follows a '-' ends one match.
CountArrows(line) ==
    Cardinality({ i \in 2..Len(line) : line[i] = ">" /\ line[i - 1] = "-" })

\* The composite features, derived from the primitives p and the arrow count n in
\* the order extract_features derives them.
CompositeFeatures(p, n) ==
    LET has(x) == x \in p
        on(c, x) == IF c THEN {x} ELSE {}
    IN  on(has("has_participant") /\ n > 0, "arrow_with_participant")
        \cup on(has("has_state_keyword") /\ n > 0, "has_state_transition")
        \cup on((has("has_actor") \/ has("has_actor_colons"))
                /\ (has("has_usecase") \/ has("has_usecase_parentheses")),
                "actor_with_usecase")
        \cup on(has("has_repeat_while") \/ has("has_while"), "has_activity_loop")
        \cup on(\E x \in {"has_new_action_syntax", "has_fork_again", "has_end_fork",
                          "has_split", "has_elseif", "has_backward"} : has(x),
                "has_new_syntax_markers")
        \cup on(\E x \in {"has_switch_case", "has_backward", "has_kill", "has_detach"} : has(x),
                "has_unique_activity_keywords")
        \cup on(\E x \in {"has_device", "has_storage", "has_server", "has_cloud",
                          "has_database"} : has(x),
                "has_infrastructure_nodes")
        \cup on(has("has_artifact") /\ (has("has_node") \/ has("has_cloud")),
                "has_physical_deployment")
        \cup on(\E x \in {"has_node_nesting", "has_cloud_nesting", "has_database_nesting",
                          "has_storage_nesting", "has_device_nesting"} : has(x),
                "has_deployment_nesting")
        \cup on(has("has_container") /\ (has("has_artifact") \/ has("has_node")),
                "has_containerization")
        \cup on(has("has_node") /\ ~has("has_artifact"), "has_node_without_artifact")
        \cup on(has("has_component") /\ has("has_bracket_notation"),
                "has_component_with_bracket")
        \cup on(has("has_component")
                /\ (has("has_package") \/ has("has_database") \/ has("has_folder")),
                "has_component_grouping")
        \cup on(has("has_interface") /\ ~has("has_member_visibility"),
                "has_interface_without_members")
        \cup on((has("has_object") \/ has("has_map_keyword")) /\ n > 0,
                "has_object_with_relationships")
        \cup on(has("has_map_keyword") /\ has("has_map_separator"), "has_map_with_separator")
        \cup on(\E x \in {"has_robust_participant", "has_concise_participant",
                          "has_binary_participant", "has_clock_participant",
                          "has_analog_participant"} : has(x),
                "has_timing_participant_types")
        \cup on(has("has_at_time_notation") /\ has("has_is_state_assignment"),
                "has_at_with_is_pattern")
        \cup on(has("has_at_time_notation")
                /\ (has("has_time_anchor") \/ has("has_time_constraint_arrow")),
                "has_timing_time_system")

\* extract_features: flags is the set of boolean features that are True,
\* arrow_count the numeric feature.  (total_keywords and line_count are
\* diagnostic and feed no score.)
extract_features(clean) ==
    LET p == UNION { LinePrimitives(clean[i]) : i \in 1..Len(clean) }
        n == SumSeq([i \in 1..Len(clean) |-> CountArrows(clean[i])])
    IN  [flags |-> p \cup CompositeFeatures(p, n), arrow_count |-> n]

\* features.get(feature, False)
Present(f, feature) == feature \in f.flags

\* The nine types in the order calculate_scores fills its dict, which is the
\* order max() scans it in.
DiagramTypes == <<"sequence", "class", "activity", "state", "usecase",
                  "component", "deployment", "object", "timing">>

TypeSet == { DiagramTypes[i] : i \in 1..Len(DiagramTypes) }

\* FEATURE_TIERS, base weights in tenths.
FEATURE_TIERS == [
    sequence |-> [
        tier1 |-> [
            has_sequence_message |-> 20,
            has_lost_message |-> 20,
            has_alt_loop |-> 20,
            has_activation_shortcut |-> 18,
            has_ref_over |-> 18,
            arrow_with_participant |-> 18,
            has_activate |-> 15,
            has_lifecycle_create |-> 15,
            has_lifecycle_destroy |-> 15 ],
        tier2 |-> [
            has_participant |-> 20,
            has_autonumber |-> 15,
            has_return_arrow |-> 15,
            has_group |-> 12 ],
        tier3 |-> [
            has_else |-> 8,
            has_end |-> 5,
            has_divider |-> 5,
            has_delay |-> 6 ],
        tier4 |-> [
            has_actor |-> 4 ] ],
    activity |-> [
        tier1 |-> [
            has_backward |-> 20,
            has_kill |-> 18,
            has_detach |-> 18,
            has_switch_case |-> 20,
            has_new_action_syntax |-> 18,
            has_old_activity_syntax |-> 15,
            has_swimlane |-> 13,
            has_sync_bar |-> 12 ],
        tier2 |-> [
            has_fork_again |-> 28,
            has_end_fork |-> 28,
            has_split |-> 25,
            has_partition |-> 22,
            has_start_stop |-> 20,
            has_fork_join |-> 18,
            has_activity_loop |-> 15 ],
        tier3 |-> [
            has_elseif |-> 10,
            has_if_then_else |-> 8,
            has_while |-> 8,
            has_end |-> 5 ],
        tier4 |-> << >> ],
    class |-> [
        tier1 |-> [
            has_member_visibility |-> 20,
            has_realization |-> 18,
            has_inheritance |-> 15,
            has_class |-> 14,
            has_abstract |-> 12 ],
        tier2 |-> [
            has_composition |-> 12,
            has_aggregation |-> 12,
            has_enum |-> 10,
            has_association_class |-> 15,
            has_lollipop_interface |-> 10 ],
        tier3 |-> [
            has_interface |-> 5,
            has_hide_empty_members |-> 8 ],
        tier4 |-> << >> ],
    component |-> [
        tier1 |-> [
            has_portin |-> 20,
            has_portout |-> 20,
            has_port |-> 18,
            has_component_style |-> 15,
            has_component |-> 13 ],
        tier2 |-> [
            has_interface_connection |-> 28,
            has_component_with_bracket |-> 25,
            has_component_grouping |-> 22,
            has_package |-> 20,
            has_bracket_notation |-> 18,
            has_interface_without_members |-> 15 ],
        tier3 |-> [
            has_interface |-> 5,
            has_dotted_dependency |-> 12,
            has_interface_symbol |-> 10,
            has_database |-> 8,
            has_folder |-> 8,
            has_cloud |-> 8 ],
        tier4 |-> [
            has_node |-> 4 ] ],
    deployment |-> [
        tier1 |-> [
            has_physical_deployment |-> 20,
            has_artifact |-> 18,
            has_deployment |-> 15,
            has_device |-> 14,
            has_storage |-> 14,
            has_deployment_stereotype |-> 13 ],
        tier2 |-> [
            has_deployment_nesting |-> 28,
            has_containerization |-> 25,
            has_infrastructure_nodes |-> 22,
            has_server |-> 20,
            has_node_nesting |-> 18,
            has_cloud_nesting |-> 18 ],
        tier3 |-> [
            has_file |-> 12,
            has_process |-> 12,
            has_card |-> 10,
            has_database |-> 10,
            has_cloud |-> 12 ],
        tier4 |-> [
            has_node |-> 5,
            has_stereotypes |-> 5 ] ],
    state |-> [
        tier1 |-> [
            has_history_shallow |-> 20,
            has_history_deep |-> 20,
            has_choice_pseudo |-> 18,
            has_fork_stereotype |-> 18,
            has_join_stereotype |-> 18,
            has_entrypoint_pseudo |-> 15,
            has_exitpoint_pseudo |-> 15,
            has_composite_state |-> 15 ],
        tier2 |-> [
            has_state_keyword |-> 20,
            has_state_markers |-> 20,
            has_state_transition |-> 18,
            has_nested_states |-> 15 ],
        tier3 |-> [
            has_transition_label |-> 12,
            has_state_description |-> 12,
            has_concurrency_separator |-> 10 ],
        tier4 |-> << >> ],
    usecase |-> [
        tier1 |-> [
            has_extend_include |-> 20,
            has_actor_colons |-> 18,
            has_usecase_parentheses |-> 16,
            has_usecase |-> 14,
            actor_with_usecase |-> 13 ],
        tier2 |-> [
            has_dotted_arrow |-> 10,
            has_rectangle |-> 10,
            has_package |-> 8 ],
        tier3 |-> [
            has_actor |-> 12,
            has_usecase_arrows |-> 5 ],
        tier4 |-> << >> ],
    object |-> [
        tier1 |-> [
            has_map_keyword |-> 18,
            has_map_separator |-> 16,
            has_object |-> 14,
            has_object_block |-> 13,
            has_map_with_separator |-> 12 ],
        tier2 |-> [
            has_field_assignment |-> 10,
            has_diamond_shape |-> 8,
            has_object_with_relationships |-> 8 ],
        tier3 |-> [
            has_instance_notation |-> 10 ],
        tier4 |-> << >> ],
    timing |-> [
        tier1 |-> [
            has_robust_participant |-> 20,
            has_concise_participant |-> 20,
            has_binary_participant |-> 20,
            has_clock_participant |-> 18,
            has_at_time_notation |-> 15,
            has_has_keyword |-> 14,
            has_hide_time_axis |-> 13 ],
        tier2 |-> [
            has_time_constraint_arrow |-> 25,
            has_clock_parameters |-> 22,
            has_at_with_is_pattern |-> 20,
            has_highlight_command |-> 18,
            has_timing_time_system |-> 15 ],
        tier3 |-> [
            has_time_anchor |-> 15,
            has_is_state_assignment |-> 10,
            has_scale_command |-> 12 ],
        tier4 |-> << >> ] ]

\* TIER_MULTIPLIERS in tenths (100.0, 10.0, 1.0, 0.1), in dict order.
TIER_MULTIPLIERS == [tier1 |-> 1000, tier2 |-> 100, tier3 |-> 10, tier4 |-> 1]

TierNames == <<"tier1", "tier2", "tier3", "tier4">>

\* feature in CONTEXT_RULES and dtype in CONTEXT_RULES[feature]
InContextRules(feature, dtype) ==
    <<feature, dtype>> \in {
        <<"has_interface", "class">>, <<"has_interface", "component">>,
        <<"has_node", "deployment">>, <<"has_node", "component">>,
        <<"has_cloud", "deployment">>, <<"has_cloud", "component">>,
        <<"has_database", "deployment">>, <<"has_database", "component">>,
        <<"has_actor", "usecase">>, <<"has_actor", "sequence">> }

\* CONTEXT_RULES[feature][dtype](f), in tenths.
CONTEXT_RULES(feature, dtype, f) ==
    CASE feature = "has_interface" /\ dtype = "class" ->
            IF Present(f, "has_class") \/ Present(f, "has_member_visibility") THEN 28 ELSE 5
      [] feature = "has_interface" /\ dtype = "component" ->
            IF Present(f, "has_component") \/ Present(f, "has_interface_symbol") THEN 28 ELSE 5
      [] feature = "has_node" /\ dtype = "deployment" ->
            IF Present(f, "has_artifact") THEN 20 ELSE 5
      [] feature = "has_node" /\ dtype = "component" ->
            IF ~Present(f, "has_artifact") THEN 18 ELSE 3
      [] feature = "has_cloud" /\ dtype = "deployment" ->
            IF Present(f, "has_artifact") THEN 12 ELSE 5
      [] feature = "has_cloud" /\ dtype = "component" ->
            IF ~Present(f, "has_artifact") THEN 8 ELSE 3
      [] feature = "has_database" /\ dtype = "deployment" ->
            IF Present(f, "has_infrastructure_nodes") THEN 10 ELSE 5
      [] feature = "has_database" /\ dtype = "component" ->
            IF Present(f, "has_component") THEN 8 ELSE 5
      [] feature = "has_actor" /\ dtype = "usecase" ->
            IF Present(f, "has_usecase") \/ Present(f, "has_usecase_parentheses") THEN 12 ELSE 4
      [] feature = "has_actor" /\ dtype = "sequence" ->
            IF f.arrow_count > 5 THEN 10 ELSE 4

\* HIERARCHICAL_PENALTIES: <<feature, numerator, denominator>> of each factor
\* (0.3 = 3/10, 0.75 = 3/4, 0.85 = 17/20, ...), in list order.
HIERARCHICAL_PENALTIES == [
    sequence |-> << <<"has_unique_activity_keywords", 3, 10>>, <<"has_new_action_syntax", 2, 5>>, <<"has_swimlane", 7, 10>> >>,
    activity |-> << <<"arrow_with_participant", 1, 2>>, <<"has_activate", 3, 5>> >>,
    class |-> << <<"has_portin", 1, 2>>, <<"has_portout", 1, 2>>, <<"has_component", 7, 10>> >>,
    component |-> << <<"has_member_visibility", 3, 5>>, <<"has_physical_deployment", 3, 5>>, <<"has_artifact", 3, 4>>, <<"has_class", 1, 2>>, <<"has_abstract", 3, 5>>, <<"has_node_nesting", 2, 5>>, <<"has_deployment_nesting", 1, 2>> >>,
    deployment |-> << <<"has_portin", 7, 10>>, <<"has_portout", 7, 10>>, <<"has_component_style", 4, 5>> >>,
    state |-> <<  >>,
    usecase |-> << <<"has_activate", 3, 10>>, <<"has_autonumber", 3, 10>>, <<"has_sequence_message", 1, 5>>, <<"has_alt_loop", 2, 5>> >>,
    object |-> <<  >>,
    timing |-> << <<"has_participant", 4, 5>>, <<"has_activate", 17, 20>> >> ]

RECURSIVE ApplyPenaltiesFrom(_, _, _, _)
ApplyPenaltiesFrom(score, f, penalties, k) ==
    IF k > Len(penalties) THEN score
    ELSE ApplyPenaltiesFrom(
            IF Present(f, penalties[k][1])
            THEN (score \div penalties[k][3]) * penalties[k][2]
            ELSE score,
            f, penalties, k + 1)

\* apply_hierarchical_penalties: score *= penalty_factor for every conflicting
\* feature present.  Scores are in millionths, which every product of a type's
\* factors divides exactly.
apply_hierarchical_penalties(score, f, dtype) ==
    ApplyPenaltiesFrom(score, f, HIERARCHICAL_PENALTIES[dtype], 1)

\* A weight that ignores the context rules: the static base weight always.
AdjustedWeightBaseOnly(feature, dtype, base_weight, f) == base_weight

\* adjusted_weight: the context rule's value where one exists, else base_weight.
AdjustedWeight(feature, dtype, base_weight, f) ==
    IF InContextRules(feature, dtype) THEN CONTEXT_RULES(feature, dtype, f)
    ELSE base_weight

RECURSIVE SumOver(_, _, _, _, _)
\* The inner loop of calculate_scores over the features of one tier (hundredths).
SumOver(todo, dtype, tier, f, acc) ==
    IF todo = {} THEN acc
    ELSE LET feature == CHOOSE x \in todo : TRUE
             w == AdjustedWeight(feature, dtype, FEATURE_TIERS[dtype][tier][feature], f)
         IN  SumOver(todo \ {feature}, dtype, tier, f,
                     IF Present(f, feature) THEN acc + w * TIER_MULTIPLIERS[tier] ELSE acc)

\* The score of one type before penalties, in hundredths.
TierSum(dtype, f) ==
    SumSeq([k \in 1..Len(TierNames) |->
        SumOver(DOMAIN FEATURE_TIERS[dtype][TierNames[k]], dtype, TierNames[k], f, 0)])

\* calculate_scores: raw score per type, in millionths.
calculate_scores(f) ==
    [dtype \in TypeSet |->
        apply_hierarchical_penalties(TierSum(dtype, f) * (100 * 100), f, dtype)]

\* sum(raw_scores.values())
TotalScore(raw) == SumSeq([k \in 1..Len(DiagramTypes) |-> raw[DiagramTypes[k]]])

\* A faulty normalization that divides by the largest raw score, not the total.
NormalizeByMax(raw) ==
    LET top == CHOOSE m \in { raw[d] : d \in TypeSet } : \A d \in TypeSet : raw[d] <= m
    IN  [dtype \in TypeSet |-> <<raw[dtype], top>>]

\* normalized_scores: score / total_score per type, as <<numerator, denominator>>.
Normalize(raw) ==
    [dtype \in TypeSet |-> <<raw[dtype], TotalScore(raw)>>]

\* a >= b for two fractions with the same positive denominator.
FracGeq(a, b) == a[1] >= b[1]

RECURSIVE ArgMaxFrom(_, _, _)
\* max(normalized_scores, key=normalized_scores.get): the first key, in dict
\* order, whose value no later key exceeds.
ArgMaxFrom(norm, k, best) ==
    IF k > Len(DiagramTypes) THEN best
    ELSE ArgMaxFrom(norm, k + 1,
            IF FracGeq(norm[best], norm[DiagramTypes[k]]) THEN best ELSE DiagramTypes[k])

\* A faulty selection that keeps the last of several maximal types.
ArgMaxLast(norm) ==
    LET top(k) == \A j \in 1..Len(DiagramTypes) : FracGeq(norm[DiagramTypes[k]], norm[DiagramTypes[j]])
        last   == CHOOSE k \in 1..Len(DiagramTypes) :
                      top(k) /\ \A j \in (k + 1)..Len(DiagramTypes) : ~top(j)
    IN  DiagramTypes[last]

ArgMax(norm) == ArgMaxFrom(norm, 2, DiagramTypes[1])

\* The default of classify_diagram's threshold parameter, in tenths.
DefaultThreshold == 3

\* conf >= threshold for conf = c[1]/c[2] and the threshold in tenths.
AtLeastThreshold(c, tenths) ==
    LET q == c[2] \div 10
        r == c[2] % 10
    IN  c[1] - tenths * q >= (tenths * r + 9) \div 10

RECURSIVE Gcd(_, _)
Gcd(a, b) == IF b = 0 THEN a ELSE Gcd(b, a % b)

RECURSIVE LongDivide(_, _, _, _)
\* <<floor(10^k * (q + r/d)), remainder>> by schoolbook division, digit by digit.
LongDivide(q, r, d, k) ==
    IF k = 0 THEN <<q, r>>
    ELSE LongDivide(q * 10 + (r * 10) \div d, (r * 10) % d, d, k - 1)

\* round(n/d, 4) in ten-thousandths, ties to even, for 0 <= n <= d, d > 0.
Round4(n, d) ==
    LET g  == Gcd(n, d)
        n0 == n \div g
        d0 == d \div g
        qr == LongDivide(n0 \div d0, n0 % d0, d0, 4)
        q  == qr[1]
        r  == qr[2]
    IN  IF 2 * r > d0 THEN q + 1
        ELSE IF 2 * r < d0 THEN q
        ELSE IF q % 2 = 0 THEN q ELSE q + 1

\* The result of classify_diagram for a non-UML family.
NonUmlResult(family) ==
    [diagram_type |-> family, primary_type |-> None,
     types |-> [d \in {} |-> <<0, 1>>], confidence |-> None]

\* The result of classify_diagram when total_score == 0.
UnclassifiedResult ==
    [diagram_type |-> "uml", primary_type |-> "unclassified",
     types |-> [d \in {} |-> <<0, 1>>], confidence |-> 0]

\* A single-label result: types holds the primary type alone.
ClassifiedResultPrimaryOnly(norm, threshold) ==
    LET primary == ArgMax(norm)
    IN  [diagram_type |-> "uml", primary_type |-> primary,
         types |-> [d \in {primary} |-> norm[d]],
         confidence |-> Round4(norm[primary][1], norm[primary][2])]

\* Steps 6 and 7 of classify_diagram: the types at or above the threshold, the
\* primary type and its confidence rounded to 4 decimals (in ten-thousandths).
ClassifiedResult(norm, threshold) ==
    LET filtered == { d \in TypeSet : AtLeastThreshold(norm[d], threshold) }
        primary  == ArgMax(norm)
    IN  [diagram_type |-> "uml", primary_type |-> primary,
         types |-> [d \in filtered |-> norm[d]],
         confidence |-> Round4(norm[primary][1], norm[primary][2])]

\* classify_diagram(puml_content) with the default threshold.
classify_diagram(lines) ==
    LET family == detect_diagram_type(Join(lines))
        raw    == calculate_scores(extract_features(preprocess_content(lines)))
    IN  IF family # "uml" THEN NonUmlResult(family)
        ELSE IF TotalScore(raw) = 0 THEN UnclassifiedResult
        ELSE ClassifiedResult(Normalize(raw), DefaultThreshold)

-----------------------------------------------------------------------------
(* SpecClassify: classify_diagram step by step on every text of at most      *)
(* MaxLines lines of ClassifyLines.                                          *)

ClassifyUnused ==
    /\ primary_type = Idle /\ elements = Idle /\ declared_names = Idle
    /\ alias_map = Idle /\ inventory = Idle /\ relationships = Idle
    /\ confidence = Idle /\ validation = Idle

InitClassify ==
    /\ pc = "classify"
    /\ batch = Idle /\ reports = Idle
    /\ ExtractIdle
    /\ text \in SeqsUpTo(ClassifyLines, MaxLines)
    /\ clean_content = Idle
    /\ features = Idle /\ raw_scores = Idle /\ normalized_scores = Idle
    /\ result = Idle
    /\ ClassifyUnused

\* Step 1: a marker of a non-UML family is in the text; scoring is skipped.
ReturnNonUml ==
    /\ pc = "classify"
    /\ detect_diagram_type(Join(text)) # "uml"
    /\ result' = NonUmlResult(detect_diagram_type(Join(text)))
    /\ pc' = "classified"
    /\ UNCHANGED <<extractVars, batchVars, text, clean_content, primary_type, features, raw_scores, normalized_scores,
                   elementVars, relationships, validateVars>>

\* Steps 2 to 4: preprocess, extract the features, score the nine types.
ScoreFeatures ==
    /\ pc = "classify"
    /\ detect_diagram_type(Join(text)) = "uml"
    /\ clean_content' = preprocess_content(text)
    /\ features' = extract_features(clean_content')
    /\ raw_scores' = calculate_scores(features')
    /\ pc' = "scored"
    /\ UNCHANGED <<extractVars, batchVars, text, primary_type, normalized_scores, result,
                   elementVars, relationships, validateVars>>

\* Step 5, total_score == 0.
ReturnUnclassified ==
    /\ pc = "scored"
    /\ TotalScore(raw_scores) = 0
    /\ result' = UnclassifiedResult
    /\ pc' = "classified"
    /\ UNCHANGED <<extractVars, batchVars, text, clean_content, primary_type, features, raw_scores, normalized_scores,
                   elementVars, relationships, validateVars>>

\* Steps 5 to 7, total_score != 0.
ReturnClassified ==
    /\ pc = "scored"
    /\ TotalScore(raw_scores) # 0
    /\ normalized_scores' = Normalize(raw_scores)
    /\ result' = ClassifiedResult(normalized_scores', DefaultThreshold)
    /\ pc' = "classified"
    /\ UNCHANGED <<extractVars, batchVars, text, clean_content, primary_type, features, raw_scores,
                   elementVars, relationships, validateVars>>

NextClassify ==
    \/ ReturnNonUml
    \/ ScoreFeatures
    \/ ReturnUnclassified
    \/ ReturnClassified

SpecClassify == InitClassify /\ [][NextClassify]_vars

-----------------------------------------------------------------------------
(* Properties of classify_diagram, checked under SpecClassify *)

\* classify_diagram has returned.
Classified == pc = "classified"

\* The families of the markers in the order the claim C1 gives them.
MarkerOrder == <<"graphviz", "ditaa", "salt", "gantt">>

\* The marker of family MarkerOrder[k] occurs in the text, whatever its case.
HasMarker(k) == Contains(lower(Join(text)), FamilyMarkers[MarkerOrder[k]])

\* C1: when the raw text contains, anywhere and in any case, one of the markers
\* @startdot, @startditaa, @startsalt, @startgantt, classify_diagram does no
\* scoring and returns primary_type None, confidence None and no types, and
\* the family is that of the first marker present in the order dot, ditaa,
\* salt, gantt.
C1_NonUmlFamily ==
    Classified =>
        \A k \in 1..Len(MarkerOrder) :
            (HasMarker(k) /\ \A j \in 1..(k - 1) : ~HasMarker(j)) =>
                /\ result.diagram_type = MarkerOrder[k]
                /\ result.primary_type = None
                /\ result.confidence = None
                /\ DOMAIN result.types = {}
                /\ features = Idle /\ raw_scores = Idle /\ normalized_scores = Idle

\* C1's case: a text with two markers, the earlier family's one not in lower
\* case, classified as the earlier family.
C1_Witness ==
    /\ Classified
    /\ HasMarker(2) /\ HasMarker(4) /\ ~HasMarker(1)
    /\ ~Contains(Join(text), FamilyMarkers.ditaa)
    /\ result.diagram_type = "ditaa"
    /\ result.primary_type = None

\* The sum of the numerators of the fractions norm[d] over the nine types.
SumNumerators(norm) == SumSeq([k \in 1..Len(DiagramTypes) |-> norm[DiagramTypes[k]][1]])

\* C5: for UML text with some raw score nonzero, every normalized confidence is
\* in [0,1] and the nine of them, before the threshold filter, sum to 1.
C5_NormalizedSumToOne ==
    (Classified /\ result.diagram_type = "uml" /\ \E d \in TypeSet : raw_scores[d] # 0) =>
        /\ DOMAIN normalized_scores = TypeSet
        /\ \A d \in TypeSet :
              /\ normalized_scores[d][2] > 0
              /\ normalized_scores[d][2] = normalized_scores["sequence"][2]
              /\ 0 <= normalized_scores[d][1]
              /\ normalized_scores[d][1] <= normalized_scores[d][2]
        /\ SumNumerators(normalized_scores) = normalized_scores["sequence"][2]

\* C5's case: two types share the total, neither with all of it.
C5_Witness ==
    /\ Classified
    /\ result.primary_type \in TypeSet
    /\ Cardinality({ d \in TypeSet : normalized_scores[d][1] > 0 }) >= 2

\* Some boolean feature of the extracted feature set is True.
AnyFeaturePresent == features.flags # {}

\* C6 as stated: for UML text the result is "unclassified" (confidence 0.0, no
\* types) exactly when no feature of the feature set is present, and otherwise
\* one of the nine types with confidences summing to 1.
C6_UnclassifiedIffNoFeature ==
    (Classified /\ result.diagram_type = "uml") =>
        /\ (result.primary_type = "unclassified") <=> ~AnyFeaturePresent
        /\ result.primary_type = "unclassified" =>
              result.confidence = 0 /\ DOMAIN result.types = {}
        /\ AnyFeaturePresent =>
              /\ result.primary_type \in TypeSet
              /\ SumNumerators(normalized_scores) = normalized_scores["sequence"][2]

\* The part of C6 the code does keep: no feature present gives "unclassified",
\* and so does the empty text.
C6_NoFeatureIsUnclassified ==
    (Classified /\ result.diagram_type = "uml") =>
        /\ ~AnyFeaturePresent => result = UnclassifiedResult
        /\ text = << >> => result = UnclassifiedResult

\* The position of a type in the order of C7.
CanonicalOrder == <<"sequence", "class", "activity", "state", "usecase",
                    "component", "deployment", "object", "timing">>

CanonicalIndex(d) == CHOOSE k \in 1..Len(CanonicalOrder) : CanonicalOrder[k] = d

\* C7: primary_type has the maximal normalized confidence, and among the types
\* that share the maximum it is the earliest in the canonical order.  (The
\* confidences of one result share their denominator, so their numerators
\* compare them.)
C7_PrimaryIsFirstMaximum ==
    (Classified /\ result.diagram_type = "uml" /\ result.primary_type # "unclassified") =>
        /\ result.primary_type \in TypeSet
        /\ \A d \in TypeSet :
              /\ normalized_scores[d][2] = normalized_scores[result.primary_type][2]
              /\ normalized_scores[d][1] <= normalized_scores[result.primary_type][1]
              /\ normalized_scores[d][1] = normalized_scores[result.primary_type][1]
                    => CanonicalIndex(result.primary_type) <= CanonicalIndex(d)

\* C7's case: two types tie at the maximum and the earlier one is returned.
C7_Witness ==
    /\ Classified
    /\ result.primary_type \in TypeSet
    /\ \E d \in TypeSet :
          /\ d # result.primary_type
          /\ normalized_scores[d] = normalized_scores[result.primary_type]
          /\ CanonicalIndex(result.primary_type) < CanonicalIndex(d)

-----------------------------------------------------------------------------
(* Properties of the raw scores and of the result, checked on SpecClassify *)

RECURSIVE SumOfValues(_)
\* The sum of the values of a function with a finite domain.
SumOfValues(fn) ==
    IF DOMAIN fn = {} THEN 0
    ELSE LET x == CHOOSE y \in DOMAIN fn : TRUE
         IN  fn[x] + SumOfValues([y \in DOMAIN fn \ {x} |-> fn[y]])

RECURSIVE ProductOfValues(_)
\* The product of the values of a function with a finite domain.
ProductOfValues(fn) ==
    IF DOMAIN fn = {} THEN 1
    ELSE LET x == CHOOSE y \in DOMAIN fn : TRUE
         IN  fn[x] * ProductOfValues([y \in DOMAIN fn \ {x} |-> fn[y]])

\* The multipliers of the four tiers as the specification gives them, in
\* tenths: 100, 10, 1, 0.1.
ClaimedMultipliers == [tier1 |-> 1000, tier2 |-> 100, tier3 |-> 10, tier4 |-> 1]

\* w(f) in tenths: the value of the context rule for (feature, type) when one
\* exists, the static base weight otherwise.
ClaimedWeight(feature, dtype, tier) ==
    IF InContextRules(feature, dtype) THEN CONTEXT_RULES(feature, dtype, features)
    ELSE FEATURE_TIERS[dtype][tier][feature]

\* The true features listed for the type in the tier.
TrueFeatures(dtype, tier) == DOMAIN FEATURE_TIERS[dtype][tier] \cap features.flags

\* The sum over the four tiers of multiplier * w(f) over the true features of
\* the type, in hundredths.
ClaimedSum(dtype) ==
    SumOfValues([tier \in DOMAIN ClaimedMultipliers |->
        ClaimedMultipliers[tier]
          * SumOfValues([x \in TrueFeatures(dtype, tier) |-> ClaimedWeight(x, dtype, tier)])])

\* The penalties of the type whose feature is present, by their place in the
\* list.
PresentPenalties(dtype) ==
    { k \in 1..Len(HIERARCHICAL_PENALTIES[dtype]) :
        HIERARCHICAL_PENALTIES[dtype][k][1] \in features.flags }

\* C25: the raw score of a type is the sum over the four tiers, with the
\* multipliers 100, 10, 1, 0.1, of multiplier * w(f) over every true feature
\* listed for the type in the tier, multiplied by the factors of all penalty
\* features of the type that are present; it is not negative, and it is 0
\* exactly when no feature listed in any tier of the type is true.
C25_RawScoreFormula ==
    pc = "scored" =>
        \A dtype \in TypeSet :
            LET present == PresentPenalties(dtype)
                pen     == HIERARCHICAL_PENALTIES[dtype]
            IN  /\ raw_scores[dtype] * ProductOfValues([k \in present |-> pen[k][3]])
                      = ClaimedSum(dtype) * 10000 * ProductOfValues([k \in present |-> pen[k][2]])
                /\ raw_scores[dtype] >= 0
                /\ raw_scores[dtype] = 0
                      <=> \A tier \in DOMAIN ClaimedMultipliers : TrueFeatures(dtype, tier) = {}

\* C25 witness: a text with an interface and a class has been scored; the
\* component score takes the interface at its context value and is cut by the
\* penalty for the class keyword, and stays positive.
C25_Witness ==
    /\ pc = "scored"
    /\ "has_interface" \in TrueFeatures("component", "tier3")
    /\ InContextRules("has_interface", "component")
    /\ PresentPenalties("component") # {}
    /\ raw_scores["component"] > 0
    /\ raw_scores["component"] < ClaimedSum("component") * 10000

\* The text was classified as UML with a primary type other than unclassified.
ClassifiedUml ==
    /\ pc = "classified"
    /\ result.diagram_type = "uml"
    /\ result.primary_type # "unclassified"

\* The least integer that is at least tenths/10 of total.
ShareOf(total, tenths) ==
    tenths * (total \div 10) + ((tenths * (total % 10) + 9) \div 10)

-----------------------------------------------------------------------------
(* count/count_elements.py: constants and name helpers *)

\* The keys of ELEMENT_TYPES.
ELEMENT_TYPES == {
    "class", "abstract class", "interface", "enum", "annotation", "struct",
    "protocol", "exception", "metaclass", "object", "json", "map",
    "participant", "actor", "boundary", "control", "entity", "database",
    "collections", "queue", "usecase", "state", "package", "namespace",
    "node", "folder", "frame", "cloud", "component", "rectangle",
    "circle", "diamond", "action", "agent", "artifact", "file",
    "hexagon", "label", "person", "process", "stack", "storage",
    "box", "partition", "card", "group" }

\* ALL_KEYWORDS, each keyword with its characters.
KeywordChars ==
    "abstract class" :> <<"a","b","s","t","r","a","c","t"," ","c","l","a","s","s">>
    @@ "participant" :> <<"p","a","r","t","i","c","i","p","a","n","t">>
    @@ "collections" :> <<"c","o","l","l","e","c","t","i","o","n","s">>
    @@ "annotation" :> <<"a","n","n","o","t","a","t","i","o","n">>
    @@ "interface" :> <<"i","n","t","e","r","f","a","c","e">>
    @@ "exception" :> <<"e","x","c","e","p","t","i","o","n">>
    @@ "metaclass" :> <<"m","e","t","a","c","l","a","s","s">>
    @@ "namespace" :> <<"n","a","m","e","s","p","a","c","e">>
    @@ "component" :> <<"c","o","m","p","o","n","e","n","t">>
    @@ "rectangle" :> <<"r","e","c","t","a","n","g","l","e">>
    @@ "partition" :> <<"p","a","r","t","i","t","i","o","n">>
    @@ "abstract" :> <<"a","b","s","t","r","a","c","t">>
    @@ "protocol" :> <<"p","r","o","t","o","c","o","l">>
    @@ "boundary" :> <<"b","o","u","n","d","a","r","y">>
    @@ "database" :> <<"d","a","t","a","b","a","s","e">>
    @@ "artifact" :> <<"a","r","t","i","f","a","c","t">>
    @@ "control" :> <<"c","o","n","t","r","o","l">>
    @@ "usecase" :> <<"u","s","e","c","a","s","e">>
    @@ "package" :> <<"p","a","c","k","a","g","e">>
    @@ "diamond" :> <<"d","i","a","m","o","n","d">>
    @@ "hexagon" :> <<"h","e","x","a","g","o","n">>
    @@ "process" :> <<"p","r","o","c","e","s","s">>
    @@ "storage" :> <<"s","t","o","r","a","g","e">>
    @@ "struct" :> <<"s","t","r","u","c","t">>
    @@ "object" :> <<"o","b","j","e","c","t">>
    @@ "entity" :> <<"e","n","t","i","t","y">>
    @@ "folder" :> <<"f","o","l","d","e","r">>
    @@ "circle" :> <<"c","i","r","c","l","e">>
    @@ "action" :> <<"a","c","t","i","o","n">>
    @@ "person" :> <<"p","e","r","s","o","n">>
    @@ "class" :> <<"c","l","a","s","s">>
    @@ "actor" :> <<"a","c","t","o","r">>
    @@ "queue" :> <<"q","u","e","u","e">>
    @@ "state" :> <<"s","t","a","t","e">>
    @@ "frame" :> <<"f","r","a","m","e">>
    @@ "cloud" :> <<"c","l","o","u","d">>
    @@ "agent" :> <<"a","g","e","n","t">>
    @@ "label" :> <<"l","a","b","e","l">>
    @@ "stack" :> <<"s","t","a","c","k">>
    @@ "group" :> <<"g","r","o","u","p">>
    @@ "enum" :> <<"e","n","u","m">>
    @@ "json" :> <<"j","s","o","n">>
    @@ "node" :> <<"n","o","d","e">>
    @@ "file" :> <<"f","i","l","e">>
    @@ "card" :> <<"c","a","r","d">>
    @@ "map" :> <<"m","a","p">>
    @@ "box" :> <<"b","o","x">>

ALL_KEYWORDS == DOMAIN KeywordChars

\* KEYWORD_TO_TYPE[keyword]: every keyword is its own type but "abstract".
KEYWORD_TO_TYPE(keyword) ==
    IF keyword = "abstract" THEN "abstract class" ELSE keyword

\* name_lower in KEYWORD_TO_TYPE
IsKeyword(name_lower) == \E k \in ALL_KEYWORDS : KeywordChars[k] = name_lower

\* The supported set with "unclassified" let through: a variant that the empty
\* inventory of the unsupported types has to tell from SUPPORTED_DIAGRAM_TYPES.
SupportedWithUnclassified ==
    { "class", "sequence", "usecase", "component",
      "activity", "object", "deployment", "state", "timing", "unclassified" }

SUPPORTED_DIAGRAM_TYPES ==
    { "class", "sequence", "usecase", "component",
      "activity", "object", "deployment", "state", "timing" }

\* A table without its sequence row: the endpoints of a sequence diagram
\* fall to the default type class.
ImplicitDefaultsNoSequence(ptype) ==
    CASE ptype = "usecase"    -> "actor"
      [] ptype = "component"  -> "component"
      [] ptype = "deployment" -> "node"
      [] ptype = "state"      -> "state"
      [] ptype = "activity"   -> "partition"
      [] ptype = "object"     -> "object"
      [] ptype = "timing"     -> "participant"
      [] OTHER                -> "class"

\* IMPLICIT_DEFAULTS.get(primary_type, 'class')
IMPLICIT_DEFAULTS(ptype) ==
    CASE ptype = "sequence"   -> "participant"
      [] ptype = "class"      -> "class"
      [] ptype = "usecase"    -> "actor"
      [] ptype = "component"  -> "component"
      [] ptype = "deployment" -> "node"
      [] ptype = "state"      -> "state"
      [] ptype = "activity"   -> "partition"
      [] ptype = "object"     -> "object"
      [] ptype = "timing"     -> "participant"
      [] OTHER                -> "class"

IGNORE_KEYWORDS == {
    <<"a","b","s","t","r","a","c","t">>, <<"a","c","t","i","v","a","t","e">>, <<"a","l","t">>,
    <<"a","s">>, <<"a","u","t","o","n","u","m","b","e","r">>, <<"b","o","t","t","o","m">>,
    <<"b","r","e","a","k">>, <<"c","r","e","a","t","e">>, <<"c","r","i","t","i","c","a","l">>,
    <<"d","e","a","c","t","i","v","a","t","e">>, <<"d","e","s","t","r","o","y">>, <<"e","l","s","e">>,
    <<"e","n","d">>, <<"e","n","d","i","f">>, <<"e","x","t","e","n","d","s">>,
    <<"f","o","o","t","e","r">>, <<"h","e","a","d","e","r">>, <<"h","i","d","e">>,
    <<"i","f">>, <<"i","m","p","l","e","m","e","n","t","s">>, <<"l","e","f","t">>,
    <<"l","e","g","e","n","d">>, <<"l","o","o","p">>, <<"n","e","w","p","a","g","e">>,
    <<"n","o","t","e">>, <<"o","f">>, <<"o","p","t">>,
    <<"p","a","r">>, <<"r","e","f">>, <<"r","e","m","o","v","e">>,
    <<"r","e","t","u","r","n">>, <<"r","i","g","h","t">>, <<"s","h","o","w">>,
    <<"s","k","i","n","p","a","r","a","m">>, <<"s","t","a","r","t">>, <<"s","t","a","t","i","c">>,
    <<"s","t","o","p">>, <<"t","i","t","l","e">>, <<"t","o","g","e","t","h","e","r">>,
    <<"t","o","p">>, <<"u","r","l">> }

Digits == { "0", "1", "2", "3", "4", "5", "6", "7", "8", "9" }

Letters ==
    { "a", "b", "c", "d", "e", "f", "g", "h", "i", "j", "k", "l", "m",
      "n", "o", "p", "q", "r", "s", "t", "u", "v", "w", "x", "y", "z",
      "A", "B", "C", "D", "E", "F", "G", "H", "I", "J", "K", "L", "M",
      "N", "O", "P", "Q", "R", "S", "T", "U", "V", "W", "X", "Y", "Z" }

\* The characters of the class [\w.$] among those the model writes.
NameChars == Letters \cup Digits \cup { "_", ".", "$" }

\* The characters of the class [\d*] of CARDINALITY_PATTERN.
CardinalityChars == Digits \cup { "*" }

\* The last index of the longest run of characters of C that starts at s[i]
\* (i - 1 when s[i] is not in C): where a greedy C+ or C* stops.
RunEnd(s, i, C) ==
    LET stops == { k \in i..Len(s) : s[k] \notin C }
    IN  IF stops = {} THEN Len(s)
        ELSE (CHOOSE k \in stops : \A j \in stops : k <= j) - 1

RECURSIVE RStrip(_)
\* str.rstrip()
RStrip(s) == IF s # << >> /\ IsSpace(s[Len(s)]) THEN RStrip(SubSeq(s, 1, Len(s) - 1)) ELSE s

\* str.strip()
Strip(s) == RStrip(LStrip(s))

\* is_cardinality: CARDINALITY_PATTERN  ^[\d*]+(?:\.\.[\d*]+)?$  on name.strip().
is_cardinality(name) ==
    LET s  == Strip(name)
        e1 == RunEnd(s, 1, CardinalityChars)
    IN  /\ e1 >= 1
        /\ \/ e1 = Len(s)
           \/ /\ MatchAt(s, e1 + 1, <<".", ".">>)
              /\ e1 + 3 <= Len(s)
              /\ RunEnd(s, e1 + 3, CardinalityChars) = Len(s)

RECURSIVE StripGenericsFrom(_, _)
\* re.sub(r'<[^>]+>', '', name), scanning from i.
StripGenericsFrom(s, i) ==
    IF i > Len(s) THEN << >>
    ELSE LET close == FindFrom(s, i + 1, << ">" >>) IN
         IF s[i] = "<" /\ close >= i + 2
         THEN StripGenericsFrom(s, close + 1)
         ELSE << s[i] >> \o StripGenericsFrom(s, i + 1)

\* The tokens of a line: line.split(' ') without the empty strings.  The
\* patterns of the extractor are applied to lines whose fields are separated
\* by blanks and hold no blank themselves.
RECURSIVE TokensFrom(_, _, _)
TokensFrom(line, i, cur) ==
    IF i > Len(line) THEN (IF cur = << >> THEN << >> ELSE << cur >>)
    ELSE IF line[i] \in {" ", "\t"}
         THEN (IF cur = << >> THEN << >> ELSE << cur >>) \o TokensFrom(line, i + 1, << >>)
         ELSE TokensFrom(line, i + 1, Append(cur, line[i]))

Tokens(line) == TokensFrom(line, 1, << >>)

\* "body" for a token that is "body" with no quote inside and body not empty:
\* what the group of  "([^"]+)"  captures; else the empty string.
QuotedBody(tok) ==
    IF /\ Len(tok) >= 3
       /\ tok[1] = "\"" /\ tok[Len(tok)] = "\""
       /\ \A k \in 2..(Len(tok) - 1) : tok[k] # "\""
    THEN SubSeq(tok, 2, Len(tok) - 1)
    ELSE << >>

\* A token that  "[^"\n]*"  matches whole: a quoted label, possibly empty.
IsQuotedLabel(tok) ==
    /\ Len(tok) >= 2
    /\ tok[1] = "\"" /\ tok[Len(tok)] = "\""
    /\ \A k \in 2..(Len(tok) - 1) : tok[k] # "\""

\* What  ([\w.$]+)  captures at the start of a token; empty when it cannot match.
WordPrefix(tok) == SubSeq(tok, 1, RunEnd(tok, 1, NameChars))

\* A token that  [\w.$]+  matches whole.
IsWord(tok) == tok # << >> /\ RunEnd(tok, 1, NameChars) = Len(tok)

\* What  ([\w.$]+(?:<[^>]+>)?)  captures at the start of a token.
WordWithGenerics(tok) ==
    LET e     == RunEnd(tok, 1, NameChars)
        close == FindFrom(tok, e + 2, << ">" >>)
    IN  IF e >= 1 /\ e < Len(tok) /\ tok[e + 1] = "<" /\ close >= e + 3
        THEN SubSeq(tok, 1, close)
        ELSE SubSeq(tok, 1, e)

\* "as" between blanks, as  \s+as\s+  reads it; re.IGNORECASE folds its case.
IsAs(tok, ignore_case) ==
    (IF ignore_case THEN lower(tok) ELSE tok) = <<"a", "s">>

\* The alias of  (?:\s+as\s+(?:"([^"]+)"|([\w.$]+)))?  when tokens[i] is "as"
\* and an alias follows; else the empty string.
AliasAt(tokens, i, ignore_case) ==
    IF i + 1 <= Len(tokens) /\ IsAs(tokens[i], ignore_case)
    THEN IF QuotedBody(tokens[i + 1]) # << >> THEN QuotedBody(tokens[i + 1])
         ELSE WordPrefix(tokens[i + 1])
    ELSE << >>

\* A token that  <<[^>]*>>  matches whole: a stereotype.
IsStereotype(tok) ==
    /\ Len(tok) >= 4
    /\ tok[1] = "<" /\ tok[2] = "<" /\ tok[Len(tok) - 1] = ">" /\ tok[Len(tok)] = ">"
    /\ \A k \in 3..(Len(tok) - 2) : tok[k] # ">"

\* A token that  \#[a-zA-Z0-9]+  matches whole: a colour.
IsColor(tok) ==
    /\ Len(tok) >= 2
    /\ tok[1] = "#"
    /\ \A k \in 2..Len(tok) : tok[k] \in Letters \cup Digits

\* The index after the optional stereotype and colour tokens that start at i.
SkipDecorations(tokens, i, with_color) ==
    LET j == IF i <= Len(tokens) /\ IsStereotype(tokens[i]) THEN i + 1 ELSE i
    IN  IF with_color /\ j <= Len(tokens) /\ IsColor(tokens[j]) THEN j + 1 ELSE j

-----------------------------------------------------------------------------
(* count/count_elements.py: the declaration passes *)

\* The collections as the previous diagram left them: what count_elements
\* would start from if they were module-level objects instead of locals.
CarriedExtraction ==
    [elements |-> elements, declared_names |-> declared_names, alias_map |-> alias_map]

\* The three collections count_elements threads through its passes, as created
\* at the top of count_elements.
NewExtraction ==
    [elements |-> [t \in ELEMENT_TYPES |-> {}], declared_names |-> {}, alias_map |-> << >>]

\* The registration without the case folding of declared_names: a variant that
\* the namespace invariant has to tell from AddElement.
AddElementCaseSensitive(st, elem_type, name) ==
    [st EXCEPT !.elements[elem_type] = @ \cup {name},
               !.declared_names = @ \cup {name}]

\* elements[elem_type].add(name); declared_names.add(name.lower())
AddElement(st, elem_type, name) ==
    [st EXCEPT !.elements[elem_type] = @ \cup {name},
               !.declared_names = @ \cup {lower(name)}]

\* alias = alias.strip(); alias_map[alias.lower()] = name;
\* declared_names.add(alias.lower())
RegisterAlias(st, alias, name) ==
    LET alias_lower == lower(Strip(alias))
    IN  [st EXCEPT !.alias_map = (alias_lower :> name) @@ @,
                   !.declared_names = @ \cup {alias_lower}]

\* No match of a pattern on a line.
NoMatch == [keyword |-> "", name |-> << >>, alias |-> << >>]

\* The name of a declaration:  "([^"]+)"  or  ([\w.$]+(?:<[^>]+>)?) .
DeclaredName(tok) ==
    IF QuotedBody(tok) # << >> THEN QuotedBody(tok) ELSE WordWithGenerics(tok)

\* The token holds the declared name and nothing after it, so that a
\* stereotype, a colour or an alias can follow it.
NameEndsToken(tok) ==
    QuotedBody(tok) # << >> \/ Len(WordWithGenerics(tok)) = Len(tok)

\* The keyword (of ALL_KEYWORDS, longest first) that the tokens from index 1
\* spell, after the optional visibility modifier; "" when none does.
KeywordAt(tokens) ==
    LET first  == IF Len(tokens[1]) > 1 /\ tokens[1][1] \in {"+", "-", "#", "~"}
                  THEN Tail(tokens[1]) ELSE tokens[1]
        two    == IF Len(tokens) >= 2 THEN lower(first) \o <<" ">> \o lower(tokens[2]) ELSE << >>
        twoKw  == { k \in ALL_KEYWORDS : KeywordChars[k] = two }
        oneKw  == { k \in ALL_KEYWORDS : KeywordChars[k] = lower(first) }
    IN  IF twoKw # {} /\ Len(tokens) >= 3 /\ DeclaredName(tokens[3]) # << >>
        THEN [keyword |-> CHOOSE k \in twoKw : TRUE, at |-> 3]
        ELSE IF oneKw # {} /\ Len(tokens) >= 2 /\ DeclaredName(tokens[2]) # << >>
        THEN [keyword |-> CHOOSE k \in oneKw : TRUE, at |-> 2]
        ELSE [keyword |-> "", at |-> 0]

\* The match of extract_explicit's pattern on a line (re.IGNORECASE).
ExplicitMatch(line) ==
    LET tokens == Tokens(line) IN
    IF tokens = << >> THEN NoMatch
    ELSE LET kw == KeywordAt(tokens) IN
         IF kw.keyword = "" THEN NoMatch
         ELSE [keyword |-> kw.keyword,
               name    |-> DeclaredName(tokens[kw.at]),
               alias   |-> IF NameEndsToken(tokens[kw.at])
                           THEN AliasAt(tokens, SkipDecorations(tokens, kw.at + 1, TRUE), TRUE)
                           ELSE << >>]

\* The body of extract_explicit's loop for one match.
ExplicitStep(st, m, ptype) ==
    LET keyword        == m.keyword
        elem_type      == KEYWORD_TO_TYPE(keyword)
        canonical_name == Strip(m.name)
        name_lower     == lower(canonical_name)
        no_generics    == lower(StripGenericsFrom(canonical_name, 1))
        added          == AddElement(st, elem_type, canonical_name)
        with_generics  == IF no_generics # name_lower
                          THEN [added EXCEPT !.declared_names = @ \cup {no_generics}]
                          ELSE added
    IN  IF keyword = "" THEN st
        ELSE IF keyword = "group" /\ ptype = "sequence" THEN st
        ELSE IF m.name = << >> THEN st
        ELSE IF name_lower \in st.declared_names THEN st
        ELSE IF m.alias # << >> THEN RegisterAlias(with_generics, m.alias, canonical_name)
        ELSE with_generics

RECURSIVE ExplicitFrom(_, _, _, _)
ExplicitFrom(lines, i, st, ptype) ==
    IF i > Len(lines) THEN st
    ELSE ExplicitFrom(lines, i + 1, ExplicitStep(st, ExplicitMatch(lines[i]), ptype), ptype)

\* extract_explicit
extract_explicit(lines, st, ptype) == ExplicitFrom(lines, 1, st, ptype)

\* What  \[([^\]]+)\]  captures at the start of a token; empty when it cannot match.
BracketName(tok) ==
    LET close == FindFrom(tok, 2, << "]" >>)
    IN  IF tok # << >> /\ tok[1] = "[" /\ close >= 3 THEN SubSeq(tok, 2, close - 1) ELSE << >>

\* The match of bracket_pattern on a line (case-sensitive "as").
BracketMatch(line) ==
    LET tokens == Tokens(line) IN
    IF tokens = << >> \/ BracketName(Head(tokens)) = << >> THEN NoMatch
    ELSE [keyword |-> "component",
          name    |-> BracketName(tokens[1]),
          alias   |-> IF Len(BracketName(tokens[1])) + 2 = Len(tokens[1])
                      THEN AliasAt(tokens, SkipDecorations(tokens, 2, TRUE), FALSE)
                      ELSE << >>]

\* A marker list without the two history markers.
StateMarkersStarOnly == { <<"*">> }

\* The state markers [*], [H], [H*] that the bracket passes skip.
StateMarkers == { <<"*">>, <<"H">>, <<"H", "*">> }

\* A bracket pass that registers the component without looking the name up
\* in declared_names.
BracketStepUnchecked(st, m) ==
    LET name == Strip(m.name)
    IN  IF m.keyword = "" \/ name = << >> THEN st
        ELSE IF name \in StateMarkers THEN st
        ELSE AddElement(st, "component", name)

\* The body of extract_bracket_components' loop for one match: the alias is
\* registered even when the name is already declared.
BracketStep(st, m) ==
    LET name       == Strip(m.name)
        name_lower == lower(name)
        aliased    == IF m.alias # << >> /\ lower(Strip(m.alias)) \notin st.declared_names
                      THEN RegisterAlias(st, m.alias, name) ELSE st
    IN  IF m.keyword = "" \/ name = << >> THEN st
        ELSE IF name \in StateMarkers THEN st
        ELSE IF name_lower \in aliased.declared_names THEN aliased
        ELSE AddElement(aliased, "component", name)

RECURSIVE BracketFrom(_, _, _)
BracketFrom(lines, i, st) ==
    IF i > Len(lines) THEN st
    ELSE BracketFrom(lines, i + 1, BracketStep(st, BracketMatch(lines[i])))

\* extract_bracket_components
extract_bracket_components(lines, st) == BracketFrom(lines, 1, st)

\* The name of a lollipop or of a relation endpoint:  "([^"]+)"  or  ([\w.$]+) .
PlainName(tok) ==
    IF QuotedBody(tok) # << >> THEN QuotedBody(tok) ELSE WordPrefix(tok)

\* The match of lollipop_pattern on a line:  () Name  or  ()Name , then an
\* optional stereotype and alias.
LollipopMatch(line) ==
    LET tokens == Tokens(line)
        open   == <<"(", ")">>
    IN  IF tokens = << >> \/ ~MatchAt(tokens[1], 1, open) THEN NoMatch
        ELSE LET attached == Len(tokens[1]) > 2
                 nameTok  == IF attached THEN SubSeq(tokens[1], 3, Len(tokens[1]))
                             ELSE IF Len(tokens) >= 2 THEN tokens[2] ELSE << >>
                 at       == IF attached THEN 1 ELSE 2
             IN  IF PlainName(nameTok) = << >> THEN NoMatch
                 ELSE [keyword |-> "interface",
                       name    |-> PlainName(nameTok),
                       alias   |-> IF Len(PlainName(nameTok)) = Len(nameTok) \/ QuotedBody(nameTok) # << >>
                                   THEN AliasAt(tokens, SkipDecorations(tokens, at + 1, FALSE), FALSE)
                                   ELSE << >>]

\* add_interface
add_interface(st, m) ==
    LET name       == Strip(m.name)
        name_lower == lower(name)
        added      == AddElement(st, "interface", name)
    IN  IF m.keyword = "" \/ m.name = << >> THEN st
        ELSE IF name = << >> \/ name = <<"*">> THEN st
        ELSE IF name_lower \in st.declared_names THEN st
        ELSE IF m.alias # << >> THEN RegisterAlias(added, m.alias, name)
        ELSE added

RECURSIVE LollipopFrom(_, _, _)
LollipopFrom(lines, i, st) ==
    IF i > Len(lines) THEN st
    ELSE LollipopFrom(lines, i + 1, add_interface(st, LollipopMatch(lines[i])))

\* extract_interface_notation
extract_interface_notation(lines, st) == LollipopFrom(lines, 1, st)

\* What  \(([^()*\n][^)\n]*?)\)  captures at the start of a token: the text up
\* to the first ")" when it does not start with "(", ")" or "*".
ParenName(tok) ==
    LET close == FindFrom(tok, 3, << ")" >>)
    IN  IF Len(tok) >= 3 /\ tok[1] = "(" /\ tok[2] \notin {"(", ")", "*"} /\ close >= 3
        THEN SubSeq(tok, 2, close - 1) ELSE << >>

\* What  \(([^)]+)\)  captures at the start of a token.
ParenAlias(tok) ==
    LET close == FindFrom(tok, 3, << ")" >>)
    IN  IF Len(tok) >= 3 /\ tok[1] = "(" /\ close >= 3
        THEN SubSeq(tok, 2, close - 1) ELSE << >>

\* The alias of usecase_pattern after tokens[i]:  as (Alias)  before  as alias .
UsecaseAlias(tokens, i) ==
    IF i + 2 <= Len(tokens) /\ IsAs(tokens[i + 1], FALSE)
    THEN IF ParenAlias(tokens[i + 2]) # << >> THEN ParenAlias(tokens[i + 2])
         ELSE WordPrefix(tokens[i + 2])
    ELSE << >>

\* The body of the first loop of extract_usecase_parentheses for one match.
UsecaseStep(st, raw_name, alias) ==
    LET name       == Strip(raw_name)
        name_lower == lower(name)
        added      == AddElement(st, "usecase", name)
    IN  IF name = << >> THEN st
        ELSE IF name_lower \in st.declared_names THEN st
        ELSE IF alias # << >> THEN RegisterAlias(added, alias, name)
        ELSE added

RECURSIVE UsecaseTokensFrom(_, _, _)
\* The matches of usecase_pattern on the tokens of one line, left to right; a
\* match takes its alias with it.
UsecaseTokensFrom(tokens, i, st) ==
    IF i > Len(tokens) THEN st
    ELSE IF ParenName(tokens[i]) = << >> THEN UsecaseTokensFrom(tokens, i + 1, st)
    ELSE LET closed == Len(ParenName(tokens[i])) + 2 = Len(tokens[i])
             alias  == IF closed THEN UsecaseAlias(tokens, i) ELSE << >>
         IN  UsecaseTokensFrom(tokens, IF alias # << >> THEN i + 3 ELSE i + 1,
                               UsecaseStep(st, ParenName(tokens[i]), alias))

RECURSIVE UsecaseFrom(_, _, _)
UsecaseFrom(lines, i, st) ==
    IF i > Len(lines) THEN st
    ELSE UsecaseFrom(lines, i + 1, UsecaseTokensFrom(Tokens(lines[i]), 1, st))

\* The body of the second loop of extract_usecase_parentheses for one match of
\* "Quoted Name" as (Identifier) .
QuotedAliasStep(st, raw_name, raw_alias) ==
    LET name    == Strip(raw_name)
        alias   == Strip(raw_alias)
        named   == IF lower(name) \notin st.declared_names
                   THEN AddElement(st, "usecase", name) ELSE st
    IN  IF name = << >> \/ alias = << >> THEN st
        ELSE IF lower(alias) \notin named.declared_names
        THEN RegisterAlias(named, alias, name)
        ELSE named

RECURSIVE QuotedAliasTokensFrom(_, _, _)
QuotedAliasTokensFrom(tokens, i, st) ==
    IF i + 2 > Len(tokens) THEN st
    ELSE IF /\ QuotedBody(tokens[i]) # << >>
            /\ IsAs(tokens[i + 1], FALSE)
            /\ ParenAlias(tokens[i + 2]) # << >>
         THEN QuotedAliasTokensFrom(tokens, i + 3,
                 QuotedAliasStep(st, QuotedBody(tokens[i]), ParenAlias(tokens[i + 2])))
         ELSE QuotedAliasTokensFrom(tokens, i + 1, st)

RECURSIVE QuotedAliasFrom(_, _, _)
QuotedAliasFrom(lines, i, st) ==
    IF i > Len(lines) THEN st
    ELSE QuotedAliasFrom(lines, i + 1, QuotedAliasTokensFrom(Tokens(lines[i]), 1, st))

\* extract_usecase_parentheses: the (Name) pattern over the whole text, then
\* the "Name" as (Id) pattern over the whole text.
extract_usecase_parentheses(lines, st) ==
    QuotedAliasFrom(lines, 1, UsecaseFrom(lines, 1, st))

\* The keywords of class_pattern in strip_member_bodies.
ClassPatternWords == {
    <<"c","l","a","s","s">>, <<"i","n","t","e","r","f","a","c","e">>,
    <<"e","n","u","m">>, <<"s","t","r","u","c","t">> }

\* The last index of the match of class_pattern
\*   \b(?:abstract\s+)?(?:class|interface|enum|struct)\s+\S+   (re.IGNORECASE)
\* at s[i], or 0 when it does not match there.
ClassPatternEnd(s, i) ==
    LET folded   == lower(s)
        spaces   == {" ", "\t", "\n"}
        others   == { s[k] : k \in 1..Len(s) } \ spaces
        abstract == <<"a","b","s","t","r","a","c","t">>
        afterAbs == RunEnd(s, i + Len(abstract), spaces) + 1
        k        == IF MatchAt(folded, i, abstract) /\ afterAbs > i + Len(abstract)
                    THEN afterAbs ELSE i
        words    == { w \in ClassPatternWords : MatchAt(folded, k, w) }
    IN  IF i > 1 /\ s[i - 1] \in Letters \cup Digits \cup {"_"} THEN 0
        ELSE IF words = {} THEN 0
        ELSE LET w    == CHOOSE x \in words : TRUE
                 name == RunEnd(s, k + Len(w), spaces) + 1
                 last == RunEnd(s, name, others)
             IN  IF name > k + Len(w) /\ last >= name THEN last ELSE 0

RECURSIVE BodyEnd(_, _, _)
\* The index where the brace-depth loop stops: past the brace that closes the body.
BodyEnd(s, j, brace_depth) ==
    IF j > Len(s) \/ brace_depth = 0 THEN j
    ELSE BodyEnd(s, j + 1,
            IF s[j] = "{" THEN brace_depth + 1
            ELSE IF s[j] = "}" THEN brace_depth - 1 ELSE brace_depth)

RECURSIVE StripBodiesFrom(_, _)
\* The while loop of strip_member_bodies from s[i].
StripBodiesFrom(s, i) ==
    IF i > Len(s) THEN << >>
    ELSE LET last == ClassPatternEnd(s, i) IN
         IF last = 0 THEN << s[i] >> \o StripBodiesFrom(s, i + 1)
         ELSE LET open == FindFrom(s, last + 1, << "{" >>) IN
              IF open = 0 THEN SubSeq(s, i, Len(s))
              ELSE SubSeq(s, i, open - 1) \o <<"{", " ", "}">>
                       \o StripBodiesFrom(s, BodyEnd(s, open + 1, 1))

\* strip_member_bodies: the body that follows a class-like declaration is
\* replaced by "{ }"; the scan copies up to the first "{" after the declaration,
\* so a text without "{" comes back as it is.
strip_member_bodies(lines) == Split(StripBodiesFrom(Join(lines), 1))

\* The end of the name of actor_pattern's  :([^:\n;]+):  whose opening colon is
\* line[c]: the index of the closing colon, or 0 when the pattern fails at c.
CreoleClose(line, c) ==
    LET e == RunEnd(line, c + 1, { line[k] : k \in 1..Len(line) } \ { ":", ";" })
        after == LStrip(SubSeq(line, e + 2, Len(line)))
    IN  IF /\ line[c] = ":"
           /\ (c = 1 \/ line[c - 1] \notin {"-", ">", "."})
           /\ e >= c + 1
           /\ e + 1 <= Len(line) /\ line[e + 1] = ":"
           /\ (after = << >> \/ Head(after) # ";")
        THEN e + 1 ELSE 0

\* The alias of actor_pattern after the closing colon at line[e]:
\* (?:\s+as\s+([\w.$]+))?
CreoleAlias(line, e) ==
    LET rest == SubSeq(line, e + 1, Len(line))
        toks == Tokens(rest)
    IN  IF rest # << >> /\ IsSpace(Head(rest)) /\ Len(toks) >= 2 /\ IsAs(toks[1], FALSE)
        THEN WordPrefix(toks[2]) ELSE << >>

\* The body of extract_creole_actor's loop for one match.
CreoleStep(st, raw_name, alias) ==
    LET name       == Strip(raw_name)
        name_lower == lower(name)
        added      == AddElement(st, "actor", name)
    IN  IF name = << >> THEN st
        ELSE IF name_lower \in st.declared_names THEN st
        ELSE IF alias # << >> THEN RegisterAlias(added, alias, name)
        ELSE added

RECURSIVE CreoleLineFrom(_, _, _)
\* The matches of actor_pattern on one line, scanning from line[c].
CreoleLineFrom(line, c, st) ==
    IF c > Len(line) THEN st
    ELSE LET close == CreoleClose(line, c) IN
         IF close = 0 THEN CreoleLineFrom(line, c + 1, st)
         ELSE CreoleLineFrom(line, close + 1,
                 CreoleStep(st, SubSeq(line, c + 1, close - 1), CreoleAlias(line, close)))

RECURSIVE CreoleFrom(_, _, _)
CreoleFrom(lines, i, st) ==
    IF i > Len(lines) THEN st
    ELSE CreoleFrom(lines, i + 1, CreoleLineFrom(lines[i], 1, st))

\* extract_creole_actor
extract_creole_actor(lines, st) == CreoleFrom(lines, 1, st)

-----------------------------------------------------------------------------
(* count/count_elements.py: extract_implicit *)

\* The characters a connector is drawn with:  [-.]
LineChars == { "-", "." }

\* The end decorations of  [*o#x+^0][-.][-.]+  and  [-.][-.]+[*o#x+^0] .
EndDecorations == { "*", "o", "#", "x", "+", "^", "0" }

\* The direction words of  (?:up|down|left|right|u|d|l|r)? , and none.
Directions == {
    << >>, <<"u","p">>, <<"d","o","w","n">>, <<"l","e","f","t">>, <<"r","i","g","h","t">>,
    <<"u">>, <<"d">>, <<"l">>, <<"r">> }

\* Every character of s is in C and s has at least n characters.
IsRun(s, C, n) == Len(s) >= n /\ \A k \in 1..Len(s) : s[k] \in C

\* tok is head \o body \o tail for some body accepted by Body(_).
Framed(tok, heads, tails, Body(_)) ==
    \E head \in heads, tail \in tails :
        /\ Len(head) + Len(tail) <= Len(tok)
        /\ MatchAt(tok, 1, head)
        /\ MatchAt(tok, Len(tok) - Len(tail) + 1, tail)
        /\ Body(SubSeq(tok, Len(head) + 1, Len(tok) - Len(tail)))

\* A token that the connector group of relation_pattern matches whole, one
\* disjunct per alternative of the group.
IsRelationArrow(tok) ==
    LET directed(b) == \E dir \in Directions, n \in {1, 2} :
                          /\ Len(b) = 1 + Len(dir) + n
                          /\ b[1] \in LineChars
                          /\ MatchAt(b, 2, dir)
                          /\ IsRun(SubSeq(b, 2 + Len(dir), Len(b)), LineChars, n)
        line2(b)    == IsRun(b, LineChars, 2)
        dots2(b)    == IsRun(b, {"."}, 2)
        dashes1(b)  == IsRun(b, {"-"}, 1)
        decorations == { <<d>> : d \in EndDecorations }
    IN  \/ tok \in { <<"-", ">", ">">>, <<"<", "<", "-">> }
        \/ tok \in { <<"-", ">", "x">>, <<"x", "<", "-">> }
        \/ tok = <<"<", "-", ">">>
        \/ Framed(tok, { << >>, <<"<", "|">> }, { << >>, <<"|", ">">>, <<">">> }, directed)
        \/ Framed(tok, { << >>, <<"<">> }, { << >>, <<"|", ">">>, <<">">> }, line2)
        \/ Framed(tok, decorations, { << >> }, line2)
        \/ Framed(tok, { << >> }, decorations, line2)
        \/ Framed(tok, { << >> }, { <<">">> }, dots2)
        \/ Framed(tok, { <<"<">> }, { << >> }, dots2)
        \/ Framed(tok, { <<"<">> }, { << >> }, dashes1)
        \/ Framed(tok, { << >> }, { <<">">> }, dashes1)

\* The activity marker (*), which relation_pattern matches without capturing.
ActivityMarker == <<"(", "*", ")">>

\* A token that  \[[^\]\n]*\]  matches whole: a bracket label.
IsBracketLabel(tok) ==
    /\ Len(tok) >= 2
    /\ tok[1] = "[" /\ tok[Len(tok)] = "]"
    /\ \A k \in 2..(Len(tok) - 1) : tok[k] # "]"

\* The left endpoint of relation_pattern when it is the token tok, which the
\* connector or a quoted label follows after blanks: [ok, name]; the name is
\* empty for (*).
LeftEndpoint(tok) ==
    IF QuotedBody(tok) # << >> THEN [ok |-> TRUE, name |-> QuotedBody(tok)]
    ELSE IF IsWord(tok) THEN [ok |-> TRUE, name |-> tok]
    ELSE IF ParenName(tok) # << >> /\ Len(ParenName(tok)) + 2 = Len(tok)
    THEN [ok |-> TRUE, name |-> ParenName(tok)]
    ELSE [ok |-> tok = ActivityMarker, name |-> << >>]

\* What "([^"]+)" captures at the start of a token.
QuotedPrefix(tok) ==
    LET close == FindFrom(tok, 3, << "\"" >>)
    IN  IF Len(tok) >= 3 /\ tok[1] = "\"" /\ tok[2] # "\"" /\ close >= 3
        THEN SubSeq(tok, 2, close - 1) ELSE << >>

\* The right endpoint of relation_pattern at the start of the token tok.
RightEndpoint(tok) ==
    IF QuotedPrefix(tok) # << >> THEN [ok |-> TRUE, name |-> QuotedPrefix(tok)]
    ELSE IF WordPrefix(tok) # << >> THEN [ok |-> TRUE, name |-> WordPrefix(tok)]
    ELSE IF ParenName(tok) # << >> THEN [ok |-> TRUE, name |-> ParenName(tok)]
    ELSE [ok |-> MatchAt(tok, 1, ActivityMarker), name |-> << >>]

\* The index of the right endpoint for a connector at tokens[a]: after the
\* optional quoted label and the optional bracket label, each given up in turn
\* when no endpoint follows it; 0 when there is no right endpoint.
RightIndex(tokens, a) ==
    LET isLabel(j)   == j <= Len(tokens) /\ IsQuotedLabel(tokens[j])
        isBracket(j) == j <= Len(tokens) /\ IsBracketLabel(tokens[j])
        isRight(j)   == j <= Len(tokens) /\ RightEndpoint(tokens[j]).ok
    IN  IF isLabel(a + 1) /\ isBracket(a + 2) /\ isRight(a + 3) THEN a + 3
        ELSE IF isLabel(a + 1) /\ isRight(a + 2) THEN a + 2
        ELSE IF isBracket(a + 1) /\ isRight(a + 2) THEN a + 2
        ELSE IF isRight(a + 1) THEN a + 1
        ELSE 0

\* The match of relation_pattern that starts at tokens[i]:
\* [ok, left, right, last] with last the index of the right endpoint.
RelationAt(tokens, i) ==
    LET left   == LeftEndpoint(tokens[i])
        isArrow(j) == j <= Len(tokens) /\ IsRelationArrow(tokens[j])
        arrow  == IF i + 2 <= Len(tokens) /\ IsQuotedLabel(tokens[i + 1]) /\ isArrow(i + 2)
                     /\ RightIndex(tokens, i + 2) # 0
                  THEN i + 2
                  ELSE IF isArrow(i + 1) /\ RightIndex(tokens, i + 1) # 0 THEN i + 1
                  ELSE 0
    IN  IF left.ok /\ arrow # 0
        THEN [ok |-> TRUE, left |-> left.name,
              right |-> RightEndpoint(tokens[RightIndex(tokens, arrow)]).name,
              last |-> RightIndex(tokens, arrow)]
        ELSE [ok |-> FALSE, left |-> << >>, right |-> << >>, last |-> i]

\* add_implicit_element
add_implicit_element(st, raw_name, implicit_type) ==
    LET name       == Strip(raw_name)
        name_lower == lower(name)
    IN  IF raw_name = << >> \/ name = << >> THEN st
        ELSE IF is_cardinality(name) THEN st
        ELSE IF name_lower \in IGNORE_KEYWORDS THEN st
        ELSE IF name_lower \in st.declared_names THEN st
        ELSE IF name_lower \in DOMAIN st.alias_map THEN st
        ELSE IF IsKeyword(name_lower) THEN st
        ELSE AddElement(st, implicit_type, name)

\* add_bracket_component
add_bracket_component(st, raw_name) ==
    LET name       == Strip(raw_name)
        name_lower == lower(name)
    IN  IF raw_name = << >> \/ name = << >> THEN st
        ELSE IF name \in StateMarkers THEN st
        ELSE IF name_lower \in st.declared_names THEN st
        ELSE IF name_lower \in DOMAIN st.alias_map THEN st
        ELSE AddElement(st, "component", name)

RECURSIVE RelationTokensFrom(_, _, _, _)
\* Pass 1 on the tokens of one line: the matches of relation_pattern left to
\* right, the left name added before the right one.
RelationTokensFrom(tokens, i, st, implicit_type) ==
    IF i > Len(tokens) THEN st
    ELSE LET m == RelationAt(tokens, i) IN
         IF ~m.ok THEN RelationTokensFrom(tokens, i + 1, st, implicit_type)
         ELSE RelationTokensFrom(tokens, m.last + 1,
                 add_implicit_element(add_implicit_element(st, m.left, implicit_type),
                                      m.right, implicit_type),
                 implicit_type)

RECURSIVE RelationFrom(_, _, _, _)
RelationFrom(lines, i, st, implicit_type) ==
    IF i > Len(lines) THEN st
    ELSE RelationFrom(lines, i + 1,
            RelationTokensFrom(Tokens(lines[i]), 1, st, implicit_type), implicit_type)

\* The connectors of bracket_relation_pattern and bracket_right_pattern:
\* --?>  <--?  \.\.>  <\.\.  \*--  --\*  o--  --o
BracketArrows == {
    <<"-", ">">>, <<"-", "-", ">">>, <<"<", "-">>, <<"<", "-", "-">>,
    <<".", ".", ">">>, <<"<", ".", ".">>, <<"*", "-", "-">>, <<"-", "-", "*">>,
    <<"o", "-", "-">>, <<"-", "-", "o">> }

RECURSIVE BracketLeftTokensFrom(_, _, _)
\* Pass 1b, left side, on the tokens of one line: [Name] and then a connector.
BracketLeftTokensFrom(tokens, i, st) ==
    IF i + 1 > Len(tokens) THEN st
    ELSE BracketLeftTokensFrom(tokens, i + 1,
            IF /\ BracketName(tokens[i]) # << >>
               /\ Len(BracketName(tokens[i])) + 2 = Len(tokens[i])
               /\ \E a \in BracketArrows : MatchAt(tokens[i + 1], 1, a)
            THEN add_bracket_component(st, BracketName(tokens[i]))
            ELSE st)

RECURSIVE BracketRightTokensFrom(_, _, _)
\* Pass 1b, right side, on the tokens of one line: a connector and then [Name].
BracketRightTokensFrom(tokens, i, st) ==
    IF i + 1 > Len(tokens) THEN st
    ELSE BracketRightTokensFrom(tokens, i + 1,
            IF /\ BracketName(tokens[i + 1]) # << >>
               /\ \E a \in BracketArrows : MatchAt(tokens[i], Len(tokens[i]) - Len(a) + 1, a)
            THEN add_bracket_component(st, BracketName(tokens[i + 1]))
            ELSE st)

RECURSIVE BracketLeftFrom(_, _, _)
BracketLeftFrom(lines, i, st) ==
    IF i > Len(lines) THEN st
    ELSE BracketLeftFrom(lines, i + 1, BracketLeftTokensFrom(Tokens(lines[i]), 1, st))

RECURSIVE BracketRightFrom(_, _, _)
BracketRightFrom(lines, i, st) ==
    IF i > Len(lines) THEN st
    ELSE BracketRightFrom(lines, i + 1, BracketRightTokensFrom(Tokens(lines[i]), 1, st))

\* A token that the arrow group of sequence_msg_pattern matches whole:
\* <?-+>>?  or  <?\.+>?
IsSequenceArrow(tok) ==
    LET dashes1(b) == IsRun(b, {"-"}, 1)
        dots1(b)   == IsRun(b, {"."}, 1)
    IN  \/ Framed(tok, { << >>, <<"<">> }, { << >>, <<">">>, <<">", ">">> }, dashes1)
        \/ Framed(tok, { << >>, <<"<">> }, { << >>, <<">">> }, dots1)

\* The match of sequence_msg_pattern on a line: left, arrow, right and the
\* colon of the label, which ends the right token or starts the next one.
SequenceMatch(line) ==
    LET tokens == Tokens(line)
        right  == IF Len(tokens) >= 3 THEN
                     (IF QuotedPrefix(tokens[3]) # << >> THEN QuotedPrefix(tokens[3])
                      ELSE WordPrefix(tokens[3]))
                  ELSE << >>
        used   == IF Len(tokens) >= 3 /\ QuotedPrefix(tokens[3]) # << >>
                  THEN Len(right) + 2 ELSE Len(right)
        colon  == IF Len(tokens) >= 3 /\ used < Len(tokens[3]) THEN tokens[3][used + 1] = ":"
                  ELSE Len(tokens) >= 4 /\ tokens[4][1] = ":"
    IN  IF /\ Len(tokens) >= 3
           /\ (QuotedBody(tokens[1]) # << >> \/ IsWord(tokens[1]))
           /\ IsSequenceArrow(tokens[2])
           /\ right # << >>
           /\ colon
        THEN [ok |-> TRUE, left |-> PlainName(tokens[1]), right |-> right]
        ELSE [ok |-> FALSE, left |-> << >>, right |-> << >>]

RECURSIVE SequenceFrom(_, _, _, _)
\* Pass 2: the matches of sequence_msg_pattern, one line after the other.
SequenceFrom(lines, i, st, implicit_type) ==
    IF i > Len(lines) THEN st
    ELSE LET m == SequenceMatch(lines[i]) IN
         SequenceFrom(lines, i + 1,
            IF m.ok
            THEN add_implicit_element(add_implicit_element(st, Strip(m.left), implicit_type),
                                      Strip(m.right), implicit_type)
            ELSE st,
            implicit_type)

\* extract_implicit: pass 1 over the whole text, then the two bracket patterns
\* over the whole text, then pass 2 for sequence diagrams.
extract_implicit(lines, st, implicit_type, ptype) ==
    LET pass1  == RelationFrom(lines, 1, st, implicit_type)
        pass1b == BracketRightFrom(lines, 1, BracketLeftFrom(lines, 1, pass1))
    IN  IF ptype = "sequence" THEN SequenceFrom(lines, 1, pass1b, implicit_type)
        ELSE pass1b

\* The dict count_elements returns: {t: len(names) for t, names in
\* elements.items() if names}
CountByType(els) ==
    [t \in { u \in ELEMENT_TYPES : els[u] # {} } |-> Cardinality(els[t])]

\* The empty dict.
EmptyInventory == [t \in {} |-> 0]

\* count_elements(content, primary_type) as one function of its arguments.
count_elements(lines, ptype) ==
    IF ptype \notin SUPPORTED_DIAGRAM_TYPES THEN EmptyInventory
    ELSE LET explicit == extract_explicit(lines, NewExtraction, ptype)
             bracket  == extract_bracket_components(lines, explicit)
             lollipop == extract_interface_notation(lines, bracket)
             usecase  == IF ptype = "usecase"
                         THEN extract_usecase_parentheses(lines, lollipop) ELSE lollipop
             creole   == IF ptype \in {"usecase", "sequence"}
                         THEN extract_creole_actor(strip_member_bodies(lines), usecase)
                         ELSE usecase
             implicit == extract_implicit(lines, creole, IMPLICIT_DEFAULTS(ptype), ptype)
         IN  CountByType(implicit.elements)

-----------------------------------------------------------------------------
(* SpecElements: process_file (preprocess_content, then count_elements pass  *)
(* by pass) on every text of at most MaxElementLines lines of ElementLines,  *)
(* for every primary type a classification can hand over.                    *)

\* The lines SpecElements builds its texts from.
ElementLines == {
    <<"c","l","a","s","s"," ","F","o","o">>,  \* class Foo
    <<"c","l","a","s","s"," ","F","O","O">>,  \* class FOO
    <<"c","l","a","s","s"," ","F","o","o"," ","a","s"," ","F">>,  \* class Foo as F
    <<"F"," ","-","-",">"," ","B","a","r">>,  \* F --> Bar
    <<"A"," ","\"","1","\""," ","-","-",">"," ","\"","*","\""," ","B">>,  \* A "1" --> "*" B
    <<"A"," ","-","-",">"," ","0",".",".","*">>,  \* A --> 0..*
    <<"[","C","o","m","p","]"," ","a","s"," ","C">>,  \* [Comp] as C
    <<"(",")"," ","L","o","l"," ","a","s"," ","L"," ","'"," ","i","f","a","c","e">>,  \* () Lol as L ' iface
    <<":","A","c","t","o","r",":"," ","-","-",">"," ","(","U","C",")">>  \* :Actor: --> (UC)
}

\* The primary types of a classification: the nine types, "unclassified",
\* None (the non-UML families) and the empty string of a missing entry.
PrimaryTypes == SUPPORTED_DIAGRAM_TYPES \cup { "unclassified", None, "" }

\* The three collections of the extractor as one record.
Extraction ==
    [elements |-> elements, declared_names |-> declared_names, alias_map |-> alias_map]

\* The assignment of the three collections from a record.
SetExtraction(st) ==
    /\ elements' = st.elements
    /\ declared_names' = st.declared_names
    /\ alias_map' = st.alias_map

InitElements ==
    /\ pc = "count"
    /\ batch = Idle /\ reports = Idle
    /\ ExtractIdle
    /\ text \in SeqsUpTo(ElementLines, MaxElementLines)
    /\ primary_type \in PrimaryTypes
    /\ clean_content = << >>
    /\ elements = NewExtraction.elements
    /\ declared_names = NewExtraction.declared_names
    /\ alias_map = NewExtraction.alias_map
    /\ inventory = EmptyInventory
    /\ features = Idle /\ raw_scores = Idle /\ normalized_scores = Idle /\ result = Idle
    /\ relationships = Idle /\ confidence = Idle /\ validation = Idle

\* process_file with a primary type outside SUPPORTED_DIAGRAM_TYPES:
\* count_elements returns {} at once.
CountUnsupported ==
    /\ pc = "count"
    /\ primary_type \notin SUPPORTED_DIAGRAM_TYPES
    /\ clean_content' = preprocess_content(text)
    /\ inventory' = EmptyInventory
    /\ pc' = "counted"
    /\ UNCHANGED <<extractVars, batchVars, text, primary_type, classifyVars, elements, declared_names, alias_map,
                   relationships, validateVars>>

\* process_file with a supported primary type, up to the end of extract_explicit.
ExplicitPass ==
    /\ pc = "count"
    /\ primary_type \in SUPPORTED_DIAGRAM_TYPES
    /\ clean_content' = preprocess_content(text)
    /\ SetExtraction(extract_explicit(clean_content', NewExtraction, primary_type))
    /\ pc' = "bracket"
    /\ UNCHANGED <<extractVars, batchVars, text, primary_type, classifyVars, inventory, relationships, validateVars>>

\* extract_bracket_components
BracketPass ==
    /\ pc = "bracket"
    /\ SetExtraction(extract_bracket_components(clean_content, Extraction))
    /\ pc' = "lollipop"
    /\ UNCHANGED <<extractVars, batchVars, text, clean_content, primary_type, classifyVars, inventory,
                   relationships, validateVars>>

\* extract_interface_notation; the two shorthand passes that follow depend on
\* the primary type.
LollipopPass ==
    /\ pc = "lollipop"
    /\ SetExtraction(extract_interface_notation(clean_content, Extraction))
    /\ pc' = IF primary_type = "usecase" THEN "usecase"
             ELSE IF primary_type \in {"usecase", "sequence"} THEN "creole"
             ELSE "implicit"
    /\ UNCHANGED <<extractVars, batchVars, text, clean_content, primary_type, classifyVars, inventory,
                   relationships, validateVars>>

\* extract_usecase_parentheses (usecase diagrams only)
UsecasePass ==
    /\ pc = "usecase"
    /\ SetExtraction(extract_usecase_parentheses(clean_content, Extraction))
    /\ pc' = "creole"
    /\ UNCHANGED <<extractVars, batchVars, text, clean_content, primary_type, classifyVars, inventory,
                   relationships, validateVars>>

\* extract_creole_actor on the text without member bodies (usecase and sequence)
CreolePass ==
    /\ pc = "creole"
    /\ SetExtraction(extract_creole_actor(strip_member_bodies(clean_content), Extraction))
    /\ pc' = "implicit"
    /\ UNCHANGED <<extractVars, batchVars, text, clean_content, primary_type, classifyVars, inventory,
                   relationships, validateVars>>

\* extract_implicit and the return of the counts
ImplicitPass ==
    /\ pc = "implicit"
    /\ SetExtraction(extract_implicit(clean_content, Extraction,
                                      IMPLICIT_DEFAULTS(primary_type), primary_type))
    /\ inventory' = CountByType(elements')
    /\ pc' = "counted"
    /\ UNCHANGED <<extractVars, batchVars, text, clean_content, primary_type, classifyVars, relationships, validateVars>>

NextElements ==
    \/ CountUnsupported
    \/ ExplicitPass
    \/ BracketPass
    \/ LollipopPass
    \/ UsecasePass
    \/ CreolePass
    \/ ImplicitPass

SpecElements == InitElements /\ [][NextElements]_vars

-----------------------------------------------------------------------------
(* Properties of the element extractor, checked on SpecElements.             *)

\* The nine UML types the extractor supports, as the specification lists them.
NineTypes ==
    { "class", "sequence", "usecase", "component",
      "activity", "object", "deployment", "state", "timing" }

\* count_elements has returned for a supported type.
Counted == pc = "counted" /\ primary_type \in NineTypes

\* Every canonical name held by an element type.
ElementNames == UNION { elements[t] : t \in ELEMENT_TYPES }

RECURSIVE InventoryTotal(_)
\* The sum of the reported per-type counts.
InventoryTotal(inv) ==
    IF DOMAIN inv = {} THEN 0
    ELSE LET t == CHOOSE x \in DOMAIN inv : TRUE
         IN  inv[t] + InventoryTotal([u \in DOMAIN inv \ {t} |-> inv[u]])

\* C2: at every point of the extraction a case-folded name belongs to at most
\* one element type and is held there once (two canonical names that fold to
\* the same string are the same name under the same type), and when
\* count_elements returns, the sum of the reported counts is the number of
\* distinct case-folded canonical names.
C2_CaseFoldedNamespace ==
    /\ \A t \in ELEMENT_TYPES : \A u \in ELEMENT_TYPES :
          \A n \in elements[t] : \A m \in elements[u] :
              lower(n) = lower(m) => (t = u /\ n = m)
    /\ pc = "counted" =>
          InventoryTotal(inventory) = Cardinality({ lower(n) : n \in ElementNames })

\* C2 witness: a class diagram of two declarations whose names differ only in
\* case (class Foo, class FOO) has been counted as {class: 1}.
C2_Witness ==
    /\ Counted /\ primary_type = "class" /\ Len(clean_content) = 2
    /\ LET a == ExplicitMatch(clean_content[1])
           b == ExplicitMatch(clean_content[2])
       IN  /\ a.keyword = "class" /\ b.keyword = "class"
           /\ a.name # b.name /\ lower(a.name) = lower(b.name)
    /\ inventory = ("class" :> 1)

\* The aliases that the declarations of a line bind with "as": the explicit
\* keyword form, the bracket form and the lollipop form, which every supported
\* type reads.
AliasesOf(line) ==
    { Strip(m.alias) : m \in { ExplicitMatch(line), BracketMatch(line), LollipopMatch(line) } }
        \ { << >> }

\* The endpoint names of the relationships of a line.
EndpointsOf(line) ==
    LET tokens == Tokens(line)
        ms     == { RelationAt(tokens, i) : i \in 1..Len(tokens) }
    IN  UNION { { m.left, m.right } : m \in { x \in ms : x.ok } }

\* C3: once count_elements has returned, an alias bound with "as" in a
\* declaration is not an element of its own when a later line uses it as a
\* relationship endpoint; and the class diagram  class Foo as F / F --> Bar
\* is counted as {class: 2}.
C3_AliasTransparency ==
    Counted =>
        /\ \A i \in 1..Len(clean_content) : \A j \in 1..Len(clean_content) :
              i < j => \A a \in AliasesOf(clean_content[i]) \cap EndpointsOf(clean_content[j]) :
                          a \notin ElementNames
        /\ ( /\ primary_type = "class" /\ Len(clean_content) = 2
             /\ ExplicitMatch(clean_content[1]).alias # << >>
             /\ ExplicitMatch(clean_content[1]).alias \in EndpointsOf(clean_content[2]) )
              => inventory = ("class" :> 2)

\* C4: once count_elements has returned, on every relationship line a quoted
\* cardinality label next to the connector is no element, and an endpoint
\* token that is a cardinality (digits or "*", or a ".." range of them) has
\* contributed no element; and the class diagram  A "1" --> "*" B  is counted
\* as two elements.
C4_CardinalityExclusion ==
    Counted =>
        \A k \in 1..Len(clean_content) :
            LET tokens == Tokens(clean_content[k]) IN
            \A i \in 1..Len(tokens) :
                LET m == RelationAt(tokens, i) IN
                m.ok =>
                    /\ is_cardinality(tokens[i]) => m.left \notin ElementNames
                    /\ is_cardinality(tokens[m.last]) => m.right \notin ElementNames
                    /\ \A j \in i..m.last :
                          (IsQuotedLabel(tokens[j]) /\ is_cardinality(QuotedBody(tokens[j])))
                              => QuotedBody(tokens[j]) \notin ElementNames
                    /\ ( /\ Len(clean_content) = 1 /\ i = 1 /\ m.last = 5
                         /\ IsQuotedLabel(tokens[2]) /\ IsQuotedLabel(tokens[4]) )
                          => InventoryTotal(inventory) = 2

\* C8: count_elements returns the empty inventory for every primary type
\* outside the nine supported types ("unclassified", None, the empty string),
\* whatever the text holds.
C8_UnsupportedTypeIsEmpty ==
    (pc = "counted" /\ primary_type \notin NineTypes) => inventory = EmptyInventory

\* C8 witness: a text of MaxElementLines lines that holds a keyword
\* declaration has been counted as the empty inventory under "unclassified".
C8_Witness ==
    /\ pc = "counted" /\ primary_type = "unclassified"
    /\ Len(clean_content) = MaxElementLines
    /\ \E i \in 1..Len(clean_content) : ExplicitMatch(clean_content[i]).keyword # ""
    /\ inventory = EmptyInventory

-----------------------------------------------------------------------------
(* The element extractor on the shorthand notations: pseudostate markers,
   generic suffixes, parenthesized names and bracket endpoints. *)

\* The lines SpecShorthand builds its texts from.
ShorthandLines == {
    <<"[","*","]"," ","-","-",">"," ","A">>,  \* [*] --> A
    <<"A"," ","-","-",">"," ","[","H","]">>,  \* A --> [H]
    <<"[","H","*","]"," ","-","-",">"," ","B">>,  \* [H*] --> B
    <<"[","H","]">>,  \* [H]
    <<"s","t","a","t","e"," ","A">>,  \* state A
    <<"c","l","a","s","s"," ","L","i","s","t","<","T",">">>,  \* class List<T>
    <<"c","l","a","s","s"," ","L","i","s","t">>,  \* class List
    <<"c","l","a","s","s"," ","L","i","s","t","<","U",">">>,  \* class List<U>
    <<"(","N","a","m","e",")">>,  \* (Name)
    <<"A"," ","-","-",">"," ","(","U","C",")">>,  \* A --> (UC)
    <<"(","U","C",")"," ","-","-",">"," ","A">>,  \* (UC) --> A
    <<"[","1","]"," ","-","-",">"," ","B">>,  \* [1] --> B
    <<"A"," ","-","-",">"," ","[","c","l","a","s","s","]">>  \* A --> [class]
}

\* process_file called on a text of shorthand lines, with each primary type.
InitShorthand ==
    /\ pc = "count"
    /\ batch = Idle /\ reports = Idle
    /\ ExtractIdle
    /\ text \in SeqsUpTo(ShorthandLines, MaxShorthandLines)
    /\ primary_type \in PrimaryTypes
    /\ clean_content = << >>
    /\ elements = NewExtraction.elements
    /\ declared_names = NewExtraction.declared_names
    /\ alias_map = NewExtraction.alias_map
    /\ inventory = EmptyInventory
    /\ features = Idle /\ raw_scores = Idle /\ normalized_scores = Idle /\ result = Idle
    /\ relationships = Idle /\ confidence = Idle /\ validation = Idle

SpecShorthand == InitShorthand /\ [][NextElements]_vars

-----------------------------------------------------------------------------
(* Properties of the shorthand notations, checked on SpecShorthand *)

\* re.sub(r'<[^>]+>', '', name).lower(): the name without its generic suffix.
NameNoGenerics(name) == lower(StripGenericsFrom(name, 1))

\* The text is two keyword declarations whose names differ, and differ only by
\* a generic-type-parameter suffix.
GenericPair ==
    /\ Len(clean_content) = 2
    /\ LET a == ExplicitMatch(clean_content[1])
           b == ExplicitMatch(clean_content[2])
       IN  /\ a.keyword = "class" /\ b.keyword = "class"
           /\ a.name # b.name
           /\ NameNoGenerics(a.name) = NameNoGenerics(b.name)

\* C17: two explicit declarations whose names differ only by a generic suffix
\* (class List<T> and class List, or class List<T> and class List<U>) are
\* counted as exactly one element, whichever of the two is declared first.
C17_GenericSuffixSymmetric ==
    (Counted /\ GenericPair) => InventoryTotal(inventory) = 1

\* Every token of the text.
TextTokens ==
    UNION { { Tokens(clean_content[k])[i] : i \in 1..Len(Tokens(clean_content[k])) } :
            k \in 1..Len(clean_content) }

\* The names the text writes in parentheses, (Name), and nowhere without them.
ParenthesizedNames ==
    LET inner(tok) == SubSeq(tok, 2, Len(tok) - 1)
        parens == { tok \in TextTokens :
                      Len(tok) >= 3 /\ tok[1] = "(" /\ tok[Len(tok)] = ")" }
    IN  { inner(tok) : tok \in parens } \ TextTokens

\* C19: for every primary type other than usecase a parenthesized name (Name)
\* contributes no element, whether it stands alone on a line or is an endpoint
\* of a relationship line.
C19_ParenthesisGatedByType ==
    (Counted /\ primary_type # "usecase") =>
        \A name \in ParenthesizedNames : name \notin ElementNames

\* C20: every element the implicit (relationship-line) pass adds, whether its
\* endpoint is written plain, quoted, parenthesized or in brackets, has a
\* case-folded name that before the pass is no declared name and no registered
\* alias, and that is no reserved keyword (ignore list or element keyword) and
\* no cardinality token; the implicit pass is the last pass before
\* count_elements returns its counts.
C20_ImplicitAddsOnlyFreeNames ==
    [][ (pc = "implicit" /\ pc' = "counted") =>
           \A name \in ElementNames' \ ElementNames :
               /\ lower(name) \notin declared_names
               /\ lower(name) \notin DOMAIN alias_map
               /\ lower(name) \notin IGNORE_KEYWORDS
               /\ ~IsKeyword(lower(name))
               /\ ~is_cardinality(name) ]_vars

-----------------------------------------------------------------------------
(* The element extractor on texts that introduce one name by several
   notations: keyword, bracket, lollipop, parenthesis, creole, endpoint. *)

\* The lines SpecPrecedence builds its texts from.
PrecedenceLines == {
    <<"c","l","a","s","s"," ","F","o","o">>,  \* class Foo
    <<"[","f","o","o","]">>,  \* [foo]
    <<"(",")"," ","F","O","O">>,  \* () FOO
    <<"(","f","O","O",")">>,  \* (fOO)
    <<":","f","o","O",":">>,  \* :foO:
    <<"F","o","O"," ","-","-",">"," ","B">>,  \* FoO --> B
    <<"c","l","a","s","s"," ","B","a","r"," ","a","s"," ","F","o","o">>  \* class Bar as Foo
}

\* The primary types of SpecPrecedence: one that runs every pass, one that
\* runs the creole pass without the parenthesis pass, one that runs neither,
\* and one that count_elements does not support.
PrecedenceTypes == { "usecase", "sequence", "class", "unclassified" }

\* process_file called on a text of such lines.
InitPrecedence ==
    /\ pc = "count"
    /\ batch = Idle /\ reports = Idle
    /\ ExtractIdle
    /\ text \in SeqsUpTo(PrecedenceLines, MaxPrecedenceLines)
    /\ primary_type \in PrecedenceTypes
    /\ clean_content = << >>
    /\ elements = NewExtraction.elements
    /\ declared_names = NewExtraction.declared_names
    /\ alias_map = NewExtraction.alias_map
    /\ inventory = EmptyInventory
    /\ features = Idle /\ raw_scores = Idle /\ normalized_scores = Idle /\ result = Idle
    /\ relationships = Idle /\ confidence = Idle /\ validation = Idle

SpecPrecedence == InitPrecedence /\ [][NextElements]_vars

-----------------------------------------------------------------------------
(* Properties of the pass order, checked on SpecPrecedence *)

\* The passes of count_elements in the order of its calls.
PassOrder == << "explicit", "bracket", "lollipop", "usecase", "creole", "implicit" >>

\* The names between colons that actor_pattern finds on a line.
CreoleNames(line) ==
    { Strip(SubSeq(line, c + 1, CreoleClose(line, c) - 1)) :
        c \in { k \in 1..Len(line) : CreoleClose(line, k) # 0 } }

\* The parenthesized names that usecase_pattern finds on a line.
ParenNames(line) ==
    { Strip(ParenName(Tokens(line)[i])) : i \in 1..Len(Tokens(line)) } \ { << >> }

\* What the notation of pass p offers on one line under the primary type:
\* pairs of a case-folded name and the element type the pass would give it.
OffersOnLine(p, line, ptype) ==
    CASE p = "explicit" ->
           LET m == ExplicitMatch(line) IN
           IF m.keyword = "" \/ (m.keyword = "group" /\ ptype = "sequence") THEN {}
           ELSE { << lower(Strip(m.name)), KEYWORD_TO_TYPE(m.keyword) >> }
      [] p = "bracket" ->
           LET m == BracketMatch(line) IN
           IF m.keyword = "" \/ Strip(m.name) \in StateMarkers \cup { << >> } THEN {}
           ELSE { << lower(Strip(m.name)), "component" >> }
      [] p = "lollipop" ->
           LET m == LollipopMatch(line) IN
           IF m.keyword = "" \/ Strip(m.name) \in { << >>, <<"*">> } THEN {}
           ELSE { << lower(Strip(m.name)), "interface" >> }
      [] p = "usecase" ->
           IF ptype # "usecase" THEN {}
           ELSE { << lower(n), "usecase" >> : n \in ParenNames(line) }
      [] p = "creole" ->
           IF ptype \notin { "usecase", "sequence" } THEN {}
           ELSE { << lower(n), "actor" >> : n \in CreoleNames(line) \ { << >> } }
      [] OTHER ->
           { << lower(n), IMPLICIT_DEFAULTS(ptype) >> : n \in EndpointsOf(line) \ { << >> } }

\* What pass p offers on the whole preprocessed text.
Offers(p) ==
    UNION { OffersOnLine(p, clean_content[k], primary_type) : k \in 1..Len(clean_content) }

\* The case-folded names pass p offers on line k of the preprocessed text.
OffersNamesOfLine(p, k) ==
    { o[1] : o \in OffersOnLine(p, clean_content[k], primary_type) }

\* The case-folded names pass p offers.
OfferedNames(p) == { o[1] : o \in Offers(p) }

\* The passes whose notation introduces the case-folded name.
IntroducingPasses(name_lower) ==
    { i \in 1..Len(PassOrder) : name_lower \in OfferedNames(PassOrder[i]) }

\* The first pass of the fixed order that introduces the name.
EarliestPass(name_lower) ==
    CHOOSE i \in IntroducingPasses(name_lower) : \A j \in IntroducingPasses(name_lower) : i <= j

\* The case-folded names that more than one notation introduces.
SharedNames ==
    { n \in UNION { OfferedNames(PassOrder[i]) : i \in 1..Len(PassOrder) } :
        Cardinality(IntroducingPasses(n)) >= 2 }

\* The name is held once, under a type that its earliest pass gives it, and
\* under no other type.
CountedOnceByEarliest(name_lower) ==
    LET held == { t \in ELEMENT_TYPES : \E c \in elements[t] : lower(c) = name_lower }
        first == { o[2] : o \in { x \in Offers(PassOrder[EarliestPass(name_lower)]) :
                                    x[1] = name_lower } }
    IN  /\ Cardinality(held) = 1
        /\ held \subseteq first
        /\ Cardinality({ c \in ElementNames : lower(c) = name_lower }) = 1

-----------------------------------------------------------------------------
(* SpecBodies: strip_member_bodies on every text of at most MaxBodyLines
   lines of BodyLines. *)

\* The lines SpecBodies builds its texts from.
BodyLines == {
    <<"c","l","a","s","s"," ","F","o","o"," ","{">>,  \* class Foo {
    <<"c","l","a","s","s"," ","F","o","o","{">>,  \* class Foo{
    <<"c","l","a","s","s"," ","F","o","o">>,  \* class Foo
    <<"n","o","d","e"," ","N"," ","{">>,  \* node N {
    <<":","x",":">>,  \* :x:
    <<"{","s","t","a","t","i","c","}"," ","m","(",")">>,  \* {static} m()
    <<"}">>  \* }
}

InitBodies ==
    /\ pc = "bodies"
    /\ batch = Idle /\ reports = Idle
    /\ ExtractIdle
    /\ text \in SeqsUpTo(BodyLines, MaxBodyLines)
    /\ clean_content = << >>
    /\ result = << >>
    /\ primary_type = Idle
    /\ features = Idle /\ raw_scores = Idle /\ normalized_scores = Idle
    /\ elements = Idle /\ declared_names = Idle /\ alias_map = Idle /\ inventory = Idle
    /\ relationships = Idle /\ confidence = Idle /\ validation = Idle

\* content_no_bodies = strip_member_bodies(content)
StripMemberBodies ==
    /\ pc = "bodies"
    /\ clean_content' = strip_member_bodies(text)
    /\ pc' = "stripped"
    /\ UNCHANGED <<extractVars, batchVars, text, primary_type, features, raw_scores, normalized_scores, result,
                   elementVars, relationships, validateVars>>

NextBodies == StripMemberBodies

SpecBodies == InitBodies /\ [][NextBodies]_vars

\* The index of the first newline of s at or after i, or Len(s) + 1.
LineEnd(s, i) ==
    LET nl == FindFrom(s, i, << "\n" >>) IN IF nl = 0 THEN Len(s) + 1 ELSE nl

RECURSIVE StatedStripFrom(_, _)
\* The text the statement describes, from s[i]: a declaration whose line has
\* an opening brace, with or without whitespace before it, has its body up to
\* the matching closing brace replaced by "{ }"; a declaration whose line has
\* no brace is copied and nothing after it is removed on its account; every
\* other character is copied.
StatedStripFrom(s, i) ==
    IF i > Len(s) THEN << >>
    ELSE LET last == ClassPatternEnd(s, i)
             open == FindFrom(s, i, << "{" >>)
         IN  IF last = 0 THEN << s[i] >> \o StatedStripFrom(s, i + 1)
             ELSE IF open # 0 /\ open < LineEnd(s, i)
                  THEN SubSeq(s, i, open - 1) \o <<"{", " ", "}">>
                           \o StatedStripFrom(s, BodyEnd(s, open + 1, 1))
                  ELSE SubSeq(s, i, last) \o StatedStripFrom(s, last + 1)

\* C28 as stated: strip_member_bodies replaces the brace-delimited body of
\* every class, interface, enum or struct declaration by "{ }", nested brace
\* pairs included, whether or not whitespace separates the declared name from
\* the opening brace, and leaves every character outside such bodies
\* unchanged; a declaration without a body does not cause a later, unrelated
\* brace block to be removed.
C28_OnlyDeclarationBodies ==
    pc = "stripped" => Join(clean_content) = StatedStripFrom(Join(text), 1)

-----------------------------------------------------------------------------
(* count/count_relationships.py *)

\* CATEGORY_MAP with every type under 'structural': a variant that the
\* category of a count has to tell from CATEGORY_MAP.
CategoryMapAllStructural ==
    [ class |-> "structural", object |-> "structural", component |-> "structural",
      deployment |-> "structural", sequence |-> "structural", timing |-> "structural",
      state |-> "structural", activity |-> "structural", usecase |-> "structural" ]

\* CATEGORY_MAP
CATEGORY_MAP ==
    [ class      |-> "structural",
      object     |-> "structural",
      component  |-> "structural",
      deployment |-> "structural",
      sequence   |-> "message",
      timing     |-> "message",
      state      |-> "flow",
      activity   |-> "flow",
      usecase    |-> "association" ]

\* The characters of the class [-.] of ARROW_PATTERNS.
ArrowLineChars == { "-", "." }

\* The last index of the match of ARROW_REGEX that starts at s[i], 0 when
\* there is none: the first alternative of ARROW_PATTERNS, in their order,
\* that matches there, each with the greedy quantifiers and the backtracking
\* of the regex engine.
ArrowEnd(s, i) ==
    LET is(j, c)  == j <= Len(s) /\ s[j] = c
        at(j, C)  == j <= Len(s) /\ s[j] \in C
        \* where  [-.][-.]?  stops when it starts at j (0: no match)
        pair(j)   == IF at(j, ArrowLineChars) THEN (IF at(j + 1, ArrowLineChars) THEN j + 1 ELSE j) ELSE 0
        dashes    == RunEnd(s, i, {"-"})
        dashes1   == RunEnd(s, i + 1, {"-"})
        dashes2   == RunEnd(s, i + 2, {"-"})
        dots1     == RunEnd(s, i + 1, {"."})
        dots2     == RunEnd(s, i + 2, {"."})
        \* X[-.][-.]?(?!>) : the optional character is given back when ">" follows
        noHead(c) == IF ~is(i, c) \/ pair(i + 1) = 0 THEN 0
                     ELSE IF ~is(pair(i + 1) + 1, ">") THEN pair(i + 1)
                     ELSE IF pair(i + 1) = i + 2 THEN i + 1
                     ELSE 0
    IN  CASE dashes >= i /\ is(dashes + 1, ">") /\ is(dashes + 2, ">")   -> dashes + 2    \* -+>>
          [] is(i, "<") /\ is(i + 1, "<") /\ dashes2 >= i + 2            -> dashes2       \* <<-+
          [] is(i, "-") /\ is(i + 1, ">") /\ is(i + 2, "x")              -> i + 2         \* ->x
          [] is(i, "x") /\ is(i + 1, "<") /\ is(i + 2, "-")              -> i + 2         \* x<-
          [] is(i, "<") /\ is(i + 1, "|") /\ pair(i + 2) # 0             -> pair(i + 2)   \* <\|[-.][-.]?
          [] pair(i) # 0 /\ is(pair(i) + 1, "|") /\ is(pair(i) + 2, ">") -> pair(i) + 2   \* [-.][-.]?\|>
          [] noHead("*") # 0                                             -> noHead("*")   \* \*[-.][-.]?(?!>)
          [] pair(i) # 0 /\ is(pair(i) + 1, "*")                         -> pair(i) + 1   \* [-.][-.]?\*
          [] noHead("o") # 0                                             -> noHead("o")   \* o[-.][-.]?(?!>)
          [] pair(i) # 0 /\ is(pair(i) + 1, "o") /\ ~at(pair(i) + 2, Letters)
                                                                         -> pair(i) + 1   \* [-.][-.]?o(?![a-zA-Z])
          [] is(i, ".") /\ dots1 >= i + 1 /\ is(dots1 + 1, ">")          -> dots1 + 1     \* \.\.+>
          [] is(i, "<") /\ is(i + 1, ".") /\ dots2 >= i + 2              -> dots2         \* <\.\.+
          [] is(i, "<") /\ pair(i + 1) # 0 /\ is(pair(i + 1) + 1, ">")   -> pair(i + 1) + 1  \* <[-.][-.]?>
          [] is(i, "<") /\ dashes1 >= i + 1 /\ ~is(dashes1 + 1, "<")     -> dashes1       \* <-+(?!<)
          [] is(i, "<") /\ dashes1 >= i + 2 /\ is(dashes1 + 1, "<")      -> dashes1 - 1   \*   one "-" given back
          [] dashes >= i /\ is(dashes + 1, ">") /\ ~is(dashes + 2, ">")  -> dashes + 1    \* -+>(?!>)
          [] OTHER                                                       -> 0

RECURSIVE FindallFrom(_, _)
\* len(ARROW_REGEX.findall(line)): the non-overlapping matches from s[i] on.
FindallFrom(s, i) ==
    IF i > Len(s) THEN 0
    ELSE IF ArrowEnd(s, i) # 0 THEN 1 + FindallFrom(s, ArrowEnd(s, i) + 1)
    ELSE FindallFrom(s, i + 1)

\* count_arrows: the matches of every line that, once stripped, is not empty
\* and does not start with "@" or "!".
count_arrows(lines) ==
    SumSeq([k \in 1..Len(lines) |->
        LET line == Strip(lines[k]) IN
        IF line = << >> THEN 0
        ELSE IF Head(line) \in {"@", "!"} THEN 0
        ELSE FindallFrom(line, 1)])

\* CATEGORY_MAP.get(primary_type, 'structural')
Category(ptype) ==
    IF ptype \in DOMAIN CATEGORY_MAP THEN CATEGORY_MAP[ptype] ELSE "structural"

\* The empty dict of count_relationships.
NoRelationships == [c \in {} |-> 0]

\* count_relationships(content, primary_type)
count_relationships(lines, ptype) ==
    LET arrow_count == count_arrows(preprocess_content(lines))
    IN  IF arrow_count = 0 THEN NoRelationships
        ELSE (Category(ptype) :> arrow_count)

-----------------------------------------------------------------------------
(* SpecRelationships: count_relationships on every text of at most          *)
(* MaxRelationLines lines of RelationLines, for every primary type.         *)

\* The lines SpecRelationships builds its texts from.
RelationLines == {
    <<"A"," ","-","-",">"," ","B">>,  \* A --> B
    <<"A"," ","<","|","-","-"," ","B">>,  \* A <|-- B
    <<"A"," ","*","-","-",">"," ","B">>,  \* A *--> B
    <<"A"," ",".",".",">"," ","B"," ",":"," ","u","s","e","s">>,  \* A ..> B : uses
    <<"A"," ","-",">",">"," ","B">>,  \* A ->> B
    <<"A"," ","-"," ","B">>,  \* A - B
    <<"@","a"," ","-",">"," ","b">>,  \* @a -> b
    <<"'"," ","A"," ","-",">"," ","B">>,  \* ' A -> B
    <<"A"," ","o","-","-"," ","B">>  \* A o-- B
}

InitRelationships ==
    /\ pc = "relate"
    /\ batch = Idle /\ reports = Idle
    /\ ExtractIdle
    /\ text \in SeqsUpTo(RelationLines, MaxRelationLines)
    /\ primary_type \in PrimaryTypes
    /\ clean_content = << >>
    /\ relationships = NoRelationships
    /\ features = Idle /\ raw_scores = Idle /\ normalized_scores = Idle /\ result = Idle
    /\ elements = Idle /\ declared_names = Idle /\ alias_map = Idle /\ inventory = Idle
    /\ confidence = Idle /\ validation = Idle

\* count_relationships on a text without an arrow: the empty dict.
ReturnNoRelationships ==
    /\ pc = "relate"
    /\ clean_content' = preprocess_content(text)
    /\ count_arrows(clean_content') = 0
    /\ relationships' = NoRelationships
    /\ pc' = "related"
    /\ UNCHANGED <<extractVars, batchVars, text, primary_type, classifyVars, elementVars, validateVars>>

\* count_relationships on a text with arrows: the whole count under the
\* category of the primary type.
ReturnCategory ==
    /\ pc = "relate"
    /\ clean_content' = preprocess_content(text)
    /\ count_arrows(clean_content') # 0
    /\ relationships' = (Category(primary_type) :> count_arrows(clean_content'))
    /\ pc' = "related"
    /\ UNCHANGED <<extractVars, batchVars, text, primary_type, classifyVars, elementVars, validateVars>>

NextRelationships ==
    \/ ReturnNoRelationships
    \/ ReturnCategory

SpecRelationships == InitRelationships /\ [][NextRelationships]_vars

-----------------------------------------------------------------------------
(* Properties of the relationship counter, checked on SpecRelationships.     *)

\* The category of each supported type, as the specification lists them.
ClaimedCategory ==
    [ class |-> "structural", object |-> "structural", component |-> "structural",
      deployment |-> "structural", sequence |-> "message", timing |-> "message",
      state |-> "flow", activity |-> "flow", usecase |-> "association" ]

\* C9: the result of count_relationships has at most one key, and for a
\* supported primary type and a total n > 0 of arrows in the preprocessed text
\* it is exactly {category: n} with the category of the type: structural for
\* class, object, component and deployment, message for sequence and timing,
\* flow for state and activity, association for usecase; whichever connector
\* shapes make up the total.
C9_SingleCategoryByType ==
    pc = "related" =>
        /\ Cardinality(DOMAIN relationships) <= 1
        /\ (primary_type \in NineTypes /\ count_arrows(clean_content) > 0) =>
              relationships = (ClaimedCategory[primary_type] :> count_arrows(clean_content))

\* C9 witness: a usecase text of two lines with different connector shapes,
\* one arrow on the first line and two on the second, has been counted as
\* {association: 3}.
C9_Witness ==
    /\ pc = "related" /\ primary_type = "usecase" /\ Len(clean_content) = 2
    /\ count_arrows(<< clean_content[1] >>) = 1
    /\ count_arrows(<< clean_content[2] >>) = 2
    /\ relationships = ("association" :> 3)

\* The connectors the specification's examples name.
NamedConnectors ==
    { <<"-", ">">>, <<"-", "-", ">">>, <<"-", ">", ">">>, <<"<", "|", "-", "-">>,
      <<"*", "-", "-">>, <<"*", "-", "-", ">">>, <<"o", "-", "-">>, <<"o", "-", "-", ">">>,
      <<".", ".", ">">>, <<"<", "-", "-", ">">>, <<"-", "-">> }

\* A line of two endpoint names joined by exactly one of the named connectors.
SingleConnectorLine(line) ==
    LET tokens == Tokens(line)
    IN  /\ Len(tokens) = 3
        /\ IsWord(tokens[1]) /\ IsWord(tokens[3])
        /\ tokens[2] \in NamedConnectors

\* A line that starts with "@" or "!".
DirectiveLine(line) ==
    LET s == Strip(line) IN s # << >> /\ s[1] \in { "@", "!" }

\* C18: count_arrows counts each connector occurrence exactly once.  In a
\* preprocessed text whose lines are single-connector lines or directive
\* lines, every single-connector line adds exactly 1 to the total and every
\* line starting with "@" or "!" adds 0.
C18_OnePerConnector ==
    ( /\ pc = "related"
      /\ \A k \in 1..Len(clean_content) :
            SingleConnectorLine(clean_content[k]) \/ DirectiveLine(clean_content[k]) )
      => InventoryTotal(relationships) =
            Cardinality({ k \in 1..Len(clean_content) : SingleConnectorLine(clean_content[k]) })

-----------------------------------------------------------------------------
(* validate/validate_consistency.py *)

\* EXPECTED_ELEMENTS
EXPECTED_ELEMENTS == [
    sequence |-> [
        primary   |-> {"participant", "actor", "boundary", "control", "entity", "database", "collections", "queue"},
        allowed   |-> {"box"},
        forbidden |-> {"class", "interface", "enum", "abstract class", "state", "usecase", "component", "node", "artifact"} ],
    class |-> [
        primary   |-> {"class", "abstract class", "interface", "enum", "annotation", "struct", "protocol", "exception", "metaclass"},
        allowed   |-> {"package", "namespace", "rectangle"},
        forbidden |-> {"participant", "actor", "state", "usecase", "node", "artifact", "component"} ],
    usecase |-> [
        primary   |-> {"actor", "usecase"},
        allowed   |-> {"rectangle", "package"},
        forbidden |-> {"class", "interface", "participant", "state", "component", "node", "artifact"} ],
    component |-> [
        primary   |-> {"component", "interface"},
        allowed   |-> {"package", "folder", "frame", "cloud", "database", "node", "rectangle"},
        forbidden |-> {"class", "participant", "actor", "state", "usecase"} ],
    deployment |-> [
        primary   |-> {"node", "artifact", "cloud", "database", "storage", "file", "folder", "frame", "component"},
        allowed   |-> {"rectangle", "package", "card", "agent", "stack"},
        forbidden |-> {"class", "participant", "actor", "usecase", "state"} ],
    state |-> [
        primary   |-> {"state"},
        allowed   |-> {"rectangle", "partition"},
        forbidden |-> {"class", "participant", "actor", "usecase", "component", "node", "artifact"} ],
    activity |-> [
        primary   |-> {"partition"},
        allowed   |-> {"rectangle", "group"},
        forbidden |-> {"class", "participant", "state", "usecase", "component", "node", "artifact"} ],
    object |-> [
        primary   |-> {"object", "map", "json"},
        allowed   |-> {"package", "rectangle", "diamond"},
        forbidden |-> {"class", "interface", "participant", "actor", "state", "usecase", "component", "node"} ],
    timing |-> [
        primary   |-> {"participant"},
        allowed   |-> {},
        forbidden |-> {"class", "interface", "actor", "state", "usecase", "component", "node", "artifact"} ] ]

RECURSIVE SumCounts(_, _)
\* sum(elements.get(e, 0) for e in names)
SumCounts(els, names) ==
    IF names = {} THEN 0
    ELSE LET e == CHOOSE x \in names : TRUE
         IN  (IF e \in DOMAIN els THEN els[e] ELSE 0) + SumCounts(els, names \ {e})

\* sum(elements.values())
TotalElements(els) == SumCounts(els, DOMAIN els)

\* The zero-element score with the same default for every type: a variant that
\* the scores of activity and state have to tell from ZeroElementScore.
ZeroElementScoreFlat(ptype) == 3000

\* A zero-element score that treats state like the other types: 0.9 for
\* activity, else 0.3.
ZeroElementScoreStateLow(ptype) == IF ptype = "activity" THEN 9000 ELSE 3000

\* The score of a recognized type without elements, in ten-thousandths:
\* 0.9 for activity, 0.5 for state, else 0.3.
ZeroElementScore(ptype) ==
    IF ptype = "activity" THEN 9000
    ELSE IF ptype = "state" THEN 5000
    ELSE 3000

\* A weighted score whose primary presence term is 1.0 whether or not a
\* primary element is present.
WeightedScoreFullPresence(ptype, els) ==
    LET expected        == EXPECTED_ELEMENTS[ptype]
        total_elements  == TotalElements(els)
        forbidden_count == SumCounts(els, expected.forbidden)
        kept            == total_elements - (IF forbidden_count < total_elements
                                             THEN forbidden_count ELSE total_elements)
    IN  Round4(4 * (SumCounts(els, expected.primary) + SumCounts(els, expected.allowed))
                 + 4 * kept + 2 * total_elements,
               10 * total_elements)

\* The weighted score of a recognized type with elements, in ten-thousandths:
\* round(alignment_score * 0.4 + forbidden_penalty * 0.4 + primary_presence * 0.2, 4)
\* computed on exact fractions with total_elements as the denominator.
WeightedScore(ptype, els) ==
    LET expected        == EXPECTED_ELEMENTS[ptype]
        total_elements  == TotalElements(els)
        primary_count   == SumCounts(els, expected.primary)
        allowed_count   == SumCounts(els, expected.allowed)
        forbidden_count == SumCounts(els, expected.forbidden)
        \* total_elements * forbidden_penalty
        kept            == total_elements - (IF forbidden_count < total_elements
                                             THEN forbidden_count ELSE total_elements)
        \* 2 * primary_presence
        presence2       == IF primary_count > 0 THEN 2 ELSE 1
    IN  Round4(4 * (primary_count + allowed_count) + 4 * kept + presence2 * total_elements,
               10 * total_elements)

\* calculate_consistency_score(primary_type, elements), in ten-thousandths.
calculate_consistency_score(ptype, els) ==
    IF ptype = "unclassified"
    THEN (IF TotalElements(els) = 0 THEN 10000 ELSE 3000)
    ELSE IF ptype \notin DOMAIN EXPECTED_ELEMENTS THEN 0
    ELSE IF TotalElements(els) = 0 THEN ZeroElementScore(ptype)
    ELSE WeightedScore(ptype, els)

\* The types in the order of EXPECTED_ELEMENTS, which is the order
\* infer_type_from_elements fills scores in and max() scans it in.
ExpectedOrder == <<"sequence", "class", "usecase", "component", "deployment",
                   "state", "activity", "object", "timing">>

\* scores[dtype] of infer_type_from_elements as a numerator over 2 * total:
\* max(0, primary_count / total - forbidden_count / total * 0.5).
InferScore(dtype, els) ==
    LET n == 2 * SumCounts(els, EXPECTED_ELEMENTS[dtype].primary)
               - SumCounts(els, EXPECTED_ELEMENTS[dtype].forbidden)
    IN  IF n > 0 THEN n ELSE 0

RECURSIVE InferBestFrom(_, _, _)
\* max(scores, key=scores.get): the first type, in dict order, of maximal score.
InferBestFrom(els, k, best) ==
    IF k > Len(ExpectedOrder) THEN best
    ELSE InferBestFrom(els, k + 1,
            IF InferScore(ExpectedOrder[k], els) > InferScore(best, els)
            THEN ExpectedOrder[k] ELSE best)

\* The outcome of dividing by total in infer_type_from_elements for a dict
\* that is not empty but whose counts sum to 0.
ZeroDivisionError == "ZeroDivisionError"

\* infer_type_from_elements(elements): <<suggested_type, confidence>>, the
\* confidence in ten-thousandths; ZeroDivisionError for a dict of zero counts.
infer_type_from_elements(els) ==
    IF DOMAIN els = {} THEN <<"unknown", 0>>
    ELSE IF TotalElements(els) = 0 THEN ZeroDivisionError
    ELSE LET best  == InferBestFrom(els, 2, ExpectedOrder[1])
             total == SumSeq([k \in 1..Len(ExpectedOrder) |-> InferScore(ExpectedOrder[k], els)])
         IN  IF InferScore(best, els) = 0 THEN <<"unknown", 0>>
             ELSE <<best, Round4(InferScore(best, els), total)>>

\* The severity of each flag code of detect_flags.
FlagSeverity ==
    [ NO_ELEMENTS              |-> "warning",
      FORBIDDEN_ELEMENTS       |-> "error",
      MISSING_PRIMARY_ELEMENTS |-> "warning",
      TYPE_MISMATCH            |-> "error",
      HIGH_CONFIDENCE_MISMATCH |-> "error",
      LOW_CONFIDENCE           |-> "info",
      MULTI_TYPE_AMBIGUOUS     |-> "info" ]

\* EXPECTED_ELEMENTS.get(primary_type, {}).get(key, [])
ExpectedList(ptype, key) ==
    IF ptype \in DOMAIN EXPECTED_ELEMENTS THEN EXPECTED_ELEMENTS[ptype][key] ELSE {}

\* A flag put at the head of the list instead of its end.
PrependIf(flags, cond, code) == IF cond THEN << code >> \o flags ELSE flags

\* flags.append(...) when the condition holds
AppendIf(flags, cond, code) == IF cond THEN Append(flags, code) ELSE flags

\* detect_flags: the list of flag codes in the order they are appended;
\* confidence, consistency_score and suggestion_confidence in ten-thousandths.
detect_flags(ptype, conf, els, consistency_score, suggested_type, suggestion_confidence) ==
    IF TotalElements(els) = 0
    THEN AppendIf(<< >>, ptype \notin {"activity", "unclassified"}, "NO_ELEMENTS")
    ELSE LET found_forbidden == DOMAIN els \cap ExpectedList(ptype, "forbidden")
             primary         == ExpectedList(ptype, "primary")
             f1 == AppendIf(<< >>, found_forbidden # {}, "FORBIDDEN_ELEMENTS")
             f2 == AppendIf(f1, SumCounts(els, primary) = 0 /\ primary # {},
                            "MISSING_PRIMARY_ELEMENTS")
             f3 == AppendIf(f2, /\ suggested_type # ptype
                                /\ suggested_type # "unknown"
                                /\ suggestion_confidence > 5000, "TYPE_MISMATCH")
             f4 == AppendIf(f3, conf >= 7000 /\ consistency_score < 5000,
                            "HIGH_CONFIDENCE_MISMATCH")
             f5 == AppendIf(f4, conf < 5000, "LOW_CONFIDENCE")
             error_flags == { i \in 1..Len(f5) : FlagSeverity[f5[i]] = "error" }
         IN  AppendIf(f5, consistency_score < 7000 /\ error_flags = {}, "MULTI_TYPE_AMBIGUOUS")

\* A test of the first flag alone: a variant that the verdict of an entry
\* whose error flag follows a warning has to tell from HasErrorFlags.
HasErrorFlagsFirstOnly(flags) == flags # << >> /\ FlagSeverity[flags[1]] = "error"

\* any(f['severity'] == 'error' for f in flags)
HasErrorFlags(flags) == \E i \in 1..Len(flags) : FlagSeverity[flags[i]] = "error"

\* validate_file(entry, threshold) for an entry with the primary type ptype,
\* the optional confidence conf (<< >> is None: "if confidence is None:
\* confidence = 0.0") and the elements els.
validate_file(ptype, conf, els, threshold) ==
    LET confidence0       == IF conf = << >> THEN 0 ELSE conf[1]
        consistency_score == calculate_consistency_score(ptype, els)
        suggestion        == infer_type_from_elements(els)
        flags             == detect_flags(ptype, confidence0, els, consistency_score,
                                          suggestion[1], suggestion[2])
    IN  [ primary_type          |-> ptype,
          confidence            |-> confidence0,
          elements              |-> els,
          total_elements        |-> TotalElements(els),
          consistency_score     |-> consistency_score,
          suggested_type        |-> suggestion[1],
          suggestion_confidence |-> suggestion[2],
          flags                 |-> flags,
          is_consistent         |-> consistency_score >= threshold /\ ~HasErrorFlags(flags) ]

-----------------------------------------------------------------------------
(* SpecValidate: calculate_consistency_score on every inventory over        *)
(* ValidateTypes with counts up to MaxCount, for every primary type.        *)

\* The element types of the inventories SpecValidate scores.
ValidateTypes == { "class", "participant", "partition", "state" }

\* The inventories: a count for each element type of a subset of ValidateTypes.
Inventories == UNION { [D -> 0..MaxCount] : D \in SUBSET ValidateTypes }

\* The classification confidences of the entries as optional values: <<c>>
\* for the number c, in ten-thousandths, and << >> for the None of the
\* non-UML families.
Confidences == { << >>, <<3000>>, <<5000>>, <<7000>> }

\* The thresholds validate_file is called with, in ten-thousandths.
Thresholds == { 5000, 9000 }

InitValidate ==
    /\ pc = "validate"
    /\ batch = Idle /\ reports = Idle
    /\ ExtractIdle
    /\ primary_type \in PrimaryTypes
    /\ inventory \in Inventories
    /\ validation = Idle
    /\ text = Idle /\ clean_content = Idle
    /\ features = Idle /\ raw_scores = Idle /\ normalized_scores = Idle /\ result = Idle
    /\ elements = Idle /\ declared_names = Idle /\ alias_map = Idle
    /\ relationships = Idle
    /\ confidence \in Confidences

\* The return of calculate_consistency_score for an unclassified diagram.
ScoreUnclassified ==
    /\ pc = "validate"
    /\ primary_type = "unclassified"
    /\ validation' = [consistency_score |-> calculate_consistency_score(primary_type, inventory)]
    /\ pc' = "validated"
    /\ UNCHANGED <<extractVars, batchVars, text, clean_content, primary_type, classifyVars, elementVars,
                   relationships, confidence>>

\* The return for a primary type without an entry in EXPECTED_ELEMENTS.
ScoreUnrecognized ==
    /\ pc = "validate"
    /\ primary_type # "unclassified"
    /\ primary_type \notin DOMAIN EXPECTED_ELEMENTS
    /\ validation' = [consistency_score |-> calculate_consistency_score(primary_type, inventory)]
    /\ pc' = "validated"
    /\ UNCHANGED <<extractVars, batchVars, text, clean_content, primary_type, classifyVars, elementVars,
                   relationships, confidence>>

\* The return for a recognized type and an inventory without elements.
ScoreNoElements ==
    /\ pc = "validate"
    /\ primary_type \in DOMAIN EXPECTED_ELEMENTS
    /\ TotalElements(inventory) = 0
    /\ validation' = [consistency_score |-> calculate_consistency_score(primary_type, inventory)]
    /\ pc' = "validated"
    /\ UNCHANGED <<extractVars, batchVars, text, clean_content, primary_type, classifyVars, elementVars,
                   relationships, confidence>>

\* The return for a recognized type and an inventory with elements.
ScoreElements ==
    /\ pc = "validate"
    /\ primary_type \in DOMAIN EXPECTED_ELEMENTS
    /\ TotalElements(inventory) # 0
    /\ validation' = [consistency_score |-> calculate_consistency_score(primary_type, inventory)]
    /\ pc' = "validated"
    /\ UNCHANGED <<extractVars, batchVars, text, clean_content, primary_type, classifyVars, elementVars,
                   relationships, confidence>>

\* validate_file after the consistency score, for elements that
\* infer_type_from_elements accepts: the suggestion, the flags and the verdict.
ReturnValidation ==
    /\ pc = "validated"
    /\ infer_type_from_elements(inventory) # ZeroDivisionError
    /\ \E threshold \in Thresholds :
          validation' = [ threshold |-> threshold,
                          report    |-> validate_file(primary_type, confidence, inventory, threshold) ]
    /\ pc' = "reported"
    /\ UNCHANGED <<extractVars, batchVars, text, clean_content, primary_type, classifyVars, elementVars,
                   relationships, confidence>>

\* validate_file on elements that are listed, each with the count 0:
\* infer_type_from_elements divides by the total and the call raises.
RaiseZeroDivision ==
    /\ pc = "validated"
    /\ infer_type_from_elements(inventory) = ZeroDivisionError
    /\ validation' = ZeroDivisionError
    /\ pc' = "raised"
    /\ UNCHANGED <<extractVars, batchVars, text, clean_content, primary_type, classifyVars, elementVars,
                   relationships, confidence>>

NextValidate ==
    \/ ScoreUnclassified
    \/ ScoreUnrecognized
    \/ ScoreNoElements
    \/ ScoreElements
    \/ ReturnValidation
    \/ RaiseZeroDivision

SpecValidate == InitValidate /\ [][NextValidate]_vars

-----------------------------------------------------------------------------
(* Properties of the consistency score, checked on SpecValidate.             *)

\* calculate_consistency_score has returned.
Validated == pc = "validated"

\* The supported types that score 0.3 on the inventory.
TypesScoringThreeTenths(els) ==
    { t \in NineTypes : calculate_consistency_score(t, els) = 3000 }

\* C10: on an inventory whose total count is 0, calculate_consistency_score
\* returns 1.0 for "unclassified", 0.9 for "activity", 0.5 for "state", 0.3
\* for each of the other seven supported types and 0.0 for an unrecognized
\* type; for "unclassified" with a nonzero total it returns 0.3.
C10_ZeroTotalScores ==
    Validated =>
        /\ TotalElements(inventory) = 0 =>
              /\ validation.consistency_score =
                    CASE primary_type = "unclassified" -> 10000
                      [] primary_type = "activity"     -> 9000
                      [] primary_type = "state"        -> 5000
                      [] primary_type \in NineTypes \ {"activity", "state"} -> 3000
                      [] OTHER                         -> 0
              /\ TypesScoringThreeTenths(inventory) = NineTypes \ {"activity", "state"}
              /\ Cardinality(TypesScoringThreeTenths(inventory)) = 7
        /\ (primary_type = "unclassified" /\ TotalElements(inventory) # 0) =>
              validation.consistency_score = 3000

\* C10 witness: an activity diagram whose inventory lists element types, each
\* with the count 0, has been scored 0.9.
C10_Witness ==
    /\ Validated /\ primary_type = "activity"
    /\ DOMAIN inventory # {} /\ TotalElements(inventory) = 0
    /\ validation.consistency_score = 9000

\* C10 as stated: on an inventory whose total count is 0, the supported types
\* other than activity and state, each scored 0.3, are six.
C10_OtherSixTypes ==
    (Validated /\ TotalElements(inventory) = 0) =>
        /\ \A t \in NineTypes \ {"activity", "state"} :
              calculate_consistency_score(t, inventory) = 3000
        /\ Cardinality(TypesScoringThreeTenths(inventory)) = 6

\* validate_file has returned its report.
Reported == pc = "reported"

\* The flag codes of severity error, as the specification lists them.
ErrorCodes == { "FORBIDDEN_ELEMENTS", "TYPE_MISMATCH", "HIGH_CONFIDENCE_MISMATCH" }

\* The flag codes of a report, as a set.
FlagCodes(report) == { report.flags[i] : i \in 1..Len(report.flags) }

\* C11: validate_file sets is_consistent exactly when the consistency score
\* is at least the threshold and no flag of the list has severity error; so an
\* entry with an element of a forbidden type, or with a TYPE_MISMATCH or
\* HIGH_CONFIDENCE_MISMATCH flag, is never consistent, whatever its score.
C11_ConsistentIffScoreAndNoError ==
    Reported =>
        LET r == validation.report IN
        /\ r.is_consistent <=>
              (r.consistency_score >= validation.threshold /\ FlagCodes(r) \cap ErrorCodes = {})
        /\ ( /\ primary_type \in NineTypes
             /\ \E e \in DOMAIN inventory :
                   inventory[e] > 0 /\ e \in EXPECTED_ELEMENTS[primary_type].forbidden )
              => ~r.is_consistent
        /\ FlagCodes(r) \cap {"TYPE_MISMATCH", "HIGH_CONFIDENCE_MISMATCH"} # {} => ~r.is_consistent

\* C11 witness: a report whose score reaches the threshold and whose flag
\* list holds an error flag after a warning; the entry is not consistent.
C11_Witness ==
    /\ Reported
    /\ validation.report.consistency_score >= validation.threshold
    /\ Len(validation.report.flags) >= 2
    /\ validation.report.flags[1] \notin ErrorCodes
    /\ FlagCodes(validation.report) \cap ErrorCodes # {}
    /\ ~validation.report.is_consistent

\* C16: for every inventory, the empty one included, LOW_CONFIDENCE is in the
\* flags whenever the classification confidence is below 0.5, and
\* HIGH_CONFIDENCE_MISMATCH whenever the confidence is at least 0.7 and the
\* consistency score is below 0.5.
C16_ConfidenceFlagsByOwnConditions ==
    Reported =>
        LET r == validation.report IN
        /\ r.confidence < 5000 => "LOW_CONFIDENCE" \in FlagCodes(r)
        /\ (r.confidence >= 7000 /\ r.consistency_score < 5000)
              => "HIGH_CONFIDENCE_MISMATCH" \in FlagCodes(r)

\* Every type's score of infer_type_from_elements is 0 for the inventory.
AllInferScoresZero(els) == \A t \in DOMAIN EXPECTED_ELEMENTS : InferScore(t, els) = 0

\* C22: infer_type_from_elements is total on maps of non-negative counts: no
\* call raises; it returns ("unknown", 0.0) whenever every type's score is 0,
\* the empty map and the maps whose counts are all 0 included, and otherwise
\* a type of the largest score with a confidence in (0, 1].
C22_InferIsTotal ==
    /\ pc # "raised"
    /\ Reported =>
          LET r == validation.report IN
          IF AllInferScoresZero(inventory)
          THEN r.suggested_type = "unknown" /\ r.suggestion_confidence = 0
          ELSE /\ r.suggested_type \in DOMAIN EXPECTED_ELEMENTS
               /\ \A t \in DOMAIN EXPECTED_ELEMENTS :
                     InferScore(t, inventory) <= InferScore(r.suggested_type, inventory)
               /\ r.suggestion_confidence > 0 /\ r.suggestion_confidence <= 10000

\* The count of the inventory over the list of the type: primary, allowed or
\* forbidden.
ListCount(ptype, key, els) == SumCounts(els, EXPECTED_ELEMENTS[ptype][key])

\* 0.4*(primary+allowed)/total + 0.4*(1 - min(1, forbidden/total))
\* + 0.2*(1.0 if primary > 0 else 0.5), as a fraction over 10 * total.
ClaimedScoreNumerator(ptype, els) ==
    LET total     == TotalElements(els)
        primary   == ListCount(ptype, "primary", els)
        allowed   == ListCount(ptype, "allowed", els)
        forbidden == ListCount(ptype, "forbidden", els)
    IN  4 * (primary + allowed)
        + 4 * (total - (IF forbidden > total THEN total ELSE forbidden))
        + (IF primary > 0 THEN 2 * total ELSE total)

\* C23: for each of the nine supported types and every inventory with a
\* positive total, calculate_consistency_score is 0.4*(primary+allowed)/total
\* + 0.4*(1 - min(1, forbidden/total)) + 0.2*(1.0 if primary > 0 else 0.5)
\* rounded to 4 decimals; it lies in [0, 1]; and no element type stands in
\* more than one of the lists primary, allowed, forbidden of a type.
C23_WeightedScoreFormula ==
    /\ (Validated /\ primary_type \in NineTypes /\ TotalElements(inventory) > 0) =>
          /\ validation.consistency_score =
                Round4(ClaimedScoreNumerator(primary_type, inventory),
                       10 * TotalElements(inventory))
          /\ validation.consistency_score >= 0
          /\ validation.consistency_score <= 10000
    /\ \A t \in NineTypes :
          /\ EXPECTED_ELEMENTS[t].primary \cap EXPECTED_ELEMENTS[t].allowed = {}
          /\ EXPECTED_ELEMENTS[t].primary \cap EXPECTED_ELEMENTS[t].forbidden = {}
          /\ EXPECTED_ELEMENTS[t].allowed \cap EXPECTED_ELEMENTS[t].forbidden = {}

\* C23 witness: a state diagram with one state (primary), one partition
\* (allowed) and one class (forbidden) has been scored 0.7333.
C23_Witness ==
    /\ Validated /\ primary_type = "state"
    /\ inventory = [state |-> 1, partition |-> 1, class |-> 1]
    /\ validation.consistency_score = 7333

\* The flag codes in the order detect_flags tests them.
FlagOrder == << "NO_ELEMENTS", "FORBIDDEN_ELEMENTS", "MISSING_PRIMARY_ELEMENTS", "TYPE_MISMATCH",
                "HIGH_CONFIDENCE_MISMATCH", "LOW_CONFIDENCE", "MULTI_TYPE_AMBIGUOUS" >>

\* The severity of each flag code, as the specification lists it.
FlagSeverityOfClaim ==
    [ c \in { FlagOrder[k] : k \in 1..Len(FlagOrder) } |->
        IF c \in ErrorCodes THEN "error"
        ELSE IF c \in { "NO_ELEMENTS", "MISSING_PRIMARY_ELEMENTS" } THEN "warning"
        ELSE "info" ]

\* The place of a flag code in FlagOrder.
FlagIndex(code) == CHOOSE k \in 1..Len(FlagOrder) : FlagOrder[k] = code

\* C24: in every result of detect_flags the flags stand in the relative order
\* NO_ELEMENTS, FORBIDDEN_ELEMENTS, MISSING_PRIMARY_ELEMENTS, TYPE_MISMATCH,
\* HIGH_CONFIDENCE_MISMATCH, LOW_CONFIDENCE, MULTI_TYPE_AMBIGUOUS, each code at
\* most once; NO_ELEMENTS is never raised for activity or unclassified; and
\* MULTI_TYPE_AMBIGUOUS never stands with a flag of severity error.
C24_FlagOrder ==
    Reported =>
        LET flags == validation.report.flags IN
        /\ \A i \in 1..Len(flags) : flags[i] \in DOMAIN FlagSeverityOfClaim
        /\ \A i \in 1..Len(flags) : \A j \in 1..Len(flags) :
              i < j => FlagIndex(flags[i]) < FlagIndex(flags[j])
        /\ primary_type \in { "activity", "unclassified" }
              => "NO_ELEMENTS" \notin FlagCodes(validation.report)
        /\ "MULTI_TYPE_AMBIGUOUS" \in FlagCodes(validation.report)
              => \A i \in 1..Len(flags) : FlagSeverityOfClaim[flags[i]] # "error"

\* C24 witness: a sequence entry with one class and a confidence below 0.5 is
\* reported with four flags, two of severity error among them, in the order
\* of the tests and without MULTI_TYPE_AMBIGUOUS.
C24_Witness ==
    /\ Reported /\ primary_type = "sequence"
    /\ validation.report.flags = << "FORBIDDEN_ELEMENTS", "MISSING_PRIMARY_ELEMENTS",
                                   "TYPE_MISMATCH", "LOW_CONFIDENCE" >>
    /\ validation.report.consistency_score < 7000

-----------------------------------------------------------------------------
(* The four phases run one after another on one diagram: classify_diagram,
   process_file of count_elements.py, count_relationships, validate_file. *)

\* The lines between @startuml and @enduml that SpecPipeline builds its
\* diagrams from.
PipelineLines == {
    <<"A","l","i","c","e"," ","-",">"," ","B","o","b",":"," ","h","e","l","l","o">>,  \* Alice -> Bob: hello
    <<"B","o","b"," ","-",">"," ","A","l","i","c","e",":"," ","h","i">>,  \* Bob -> Alice: hi
    <<"p","a","r","t","i","c","i","p","a","n","t"," ","A","l","i","c","e">>,  \* participant Alice
    <<"s","t","a","t","e"," ","A">>,  \* state A
    <<"s","t","a","t","e"," ","B">>,  \* state B
    <<"A"," ","-","-",">"," ","B">>,  \* A --> B
    <<"[","*","]"," ","-","-",">"," ","A">>,  \* [*] --> A
    <<"u","s","e","c","a","s","e"," ","U","C">>,  \* usecase UC
    <<"[","H","]"," ","-","-",">"," ","A">>,  \* [H] --> A
    <<"A"," ","-","-",">"," ","[","H","*","]">>  \* A --> [H*]
}

StartUml == <<"@","s","t","a","r","t","u","m","l">>
EndUml == <<"@","e","n","d","u","m","l">>

\* The default of --consistency-threshold, in ten-thousandths.
DefaultConsistencyThreshold == 5000

\* The four lines of the state diagram of the end-to-end case.
StateCaseLines == <<
    <<"s","t","a","t","e"," ","A">>,
    <<"s","t","a","t","e"," ","B">>,
    <<"A"," ","-","-",">"," ","B">>,
    <<"[","*","]"," ","-","-",">"," ","A">> >>

\* The state diagram of the end-to-end case with its lines in every order.
StateCaseBodies ==
    { [i \in 1..4 |-> StateCaseLines[p[i]]] : p \in Permutations(1..4) }

\* A diagram is @startuml, a body and @enduml; the bodies are the texts of at
\* most MaxPipelineLines lines and the orderings of the state case.
InitPipeline ==
    /\ pc = "pipeline"
    /\ batch = Idle /\ reports = Idle
    /\ ExtractIdle
    /\ \E body \in SeqsUpTo(PipelineLines, MaxPipelineLines) \cup StateCaseBodies :
          text = <<StartUml>> \o body \o <<EndUml>>
    /\ clean_content = << >>
    /\ primary_type = Idle
    /\ features = Idle /\ raw_scores = Idle /\ normalized_scores = Idle
    /\ result = Idle
    /\ elements = NewExtraction.elements
    /\ declared_names = NewExtraction.declared_names
    /\ alias_map = NewExtraction.alias_map
    /\ inventory = EmptyInventory
    /\ relationships = Idle
    /\ confidence = << >>
    /\ validation = Idle

\* Phase 1: classify_diagram; primary_type and confidence go into the entry
\* that the later phases read.  Phase 2, process_file of count_elements.py,
\* follows with the passes of SpecElements.
PipelineClassify ==
    /\ pc = "pipeline"
    /\ result' = classify_diagram(text)
    /\ primary_type' = result'.primary_type
    /\ confidence' = IF result'.primary_type = None THEN << >> ELSE <<result'.confidence>>
    /\ pc' = "count"
    /\ UNCHANGED <<extractVars, batchVars, text, clean_content, features, raw_scores, normalized_scores,
                   elementVars, relationships, validation>>

\* Phase 3: count_relationships on the file's text with the classified type.
PipelineCountRelationships ==
    /\ pc = "counted"
    /\ relationships' = count_relationships(text, primary_type)
    /\ pc' = "p_related"
    /\ UNCHANGED <<extractVars, batchVars, text, clean_content, primary_type, classifyVars, elementVars, validateVars>>

\* Phase 4: validate_file on the merged entry with the default threshold.
PipelineValidate ==
    /\ pc = "p_related"
    /\ validation' = [threshold |-> DefaultConsistencyThreshold,
                      report |-> validate_file(primary_type, confidence, inventory,
                                               DefaultConsistencyThreshold)]
    /\ pc' = "p_validated"
    /\ UNCHANGED <<extractVars, batchVars, text, clean_content, primary_type, classifyVars, elementVars,
                   relationships, confidence>>

NextPipeline ==
    \/ PipelineClassify
    \/ CountUnsupported
    \/ ExplicitPass
    \/ BracketPass
    \/ LollipopPass
    \/ UsecasePass
    \/ CreolePass
    \/ ImplicitPass
    \/ PipelineCountRelationships
    \/ PipelineValidate

SpecPipeline == InitPipeline /\ [][NextPipeline]_vars

-----------------------------------------------------------------------------
(* Claims about the whole pipeline *)

\* The element passes of the pipeline have all run.
PipelineCounted == pc \in {"counted", "p_related", "p_validated"}

\* The diagram of the end-to-end sequence case.
SequenceCaseText ==
    << StartUml,
       <<"A","l","i","c","e"," ","-",">"," ","B","o","b",":"," ","h","e","l","l","o">>,
       EndUml >>

\* The two endpoints of a line  Left -> Right: label , read off its
\* blank-separated tokens; no endpoint for any other line.
MessageEndpoints(line) ==
    LET tokens == Tokens(line) IN
    IF /\ Len(tokens) >= 3
       /\ tokens[2] = <<"-", ">">>
       /\ Len(tokens[3]) >= 2
       /\ tokens[3][Len(tokens[3])] = ":"
    THEN { tokens[1], SubSeq(tokens[3], 1, Len(tokens[3]) - 1) }
    ELSE {}

\* The names that a line of the form  keyword Name  declares in the diagram.
DeclaredByKeyword ==
    { Tokens(text[i])[2] : i \in { j \in 1..Len(text) : Len(Tokens(text[j])) = 2 } }

PseudostateNames == { <<"*">>, <<"H">>, <<"H", "*">> }

\* The diagram holds the four lines of the state case, in some order, and
\* nothing else between @startuml and @enduml.
IsStateCase == SubSeq(text, 2, Len(text) - 1) \in StateCaseBodies

\* C13: a diagram of the lines state A, state B, A --> B and [*] --> A is
\* classified as state and its inventory is exactly {state: 2}; and in no
\* diagram does a marker [*], [H] or [H*] become an element, as a bracket
\* component or as an implicit endpoint.
C13_StateEndToEnd ==
    PipelineCounted =>
        /\ IsStateCase => (primary_type = "state" /\ inventory = ("state" :> 2))
        /\ ElementNames \cap PseudostateNames = {}

\* C13 witness: the state case has been counted; its [*] line added nothing.
C13_Witness ==
    /\ PipelineCounted
    /\ IsStateCase
    /\ inventory = ("state" :> 2)


-----------------------------------------------------------------------------
(* Properties of validate_file at its default threshold, checked on
   SpecValidate *)

\* C29: with the default threshold 0.5, validate_file on an entry whose
\* element inventory is empty reports is_consistent exactly when primary_type
\* is activity, state or unclassified, whatever the classification
\* confidence; its flag list is empty for activity and unclassified and is
\* [NO_ELEMENTS], of severity warning, for every other primary type, None and
\* unrecognized types included.
C29_EmptyInventoryVerdict ==
    (Reported /\ DOMAIN inventory = {} /\ validation.threshold = DefaultConsistencyThreshold) =>
        LET r == validation.report IN
        /\ r.is_consistent <=> primary_type \in { "activity", "state", "unclassified" }
        /\ primary_type \in { "activity", "unclassified" } => r.flags = << >>
        /\ primary_type \notin { "activity", "unclassified" } =>
              r.flags = << "NO_ELEMENTS" >> /\ FlagSeverity["NO_ELEMENTS"] = "warning"

\* C29 witness: a state entry without elements and with the confidence 0.7 is
\* reported consistent at the default threshold, with the one flag NO_ELEMENTS.
C29_Witness ==
    /\ Reported /\ DOMAIN inventory = {} /\ validation.threshold = DefaultConsistencyThreshold
    /\ primary_type = "state" /\ confidence = << 7000 >>
    /\ validation.report.flags = << "NO_ELEMENTS" >>
    /\ validation.report.is_consistent

-----------------------------------------------------------------------------
(* SpecBatch: a run over several diagrams.  The loops of the phases take the
   files one after another (classify_diagrams.py, process_files of
   count_elements.py and of count_relationships.py); the variables of the
   model live through the whole run, as the objects of the process do. *)

\* The diagrams SpecBatch builds its runs from.
BatchDiagrams == {
    << <<"c","l","a","s","s"," ","F","o","o"," ","a","s"," ","F">>,
       <<"F"," ","-","-",">"," ","B","a","r">> >>,
    << <<"c","l","a","s","s"," ","B","a","r">>,
       <<"F"," ","-","-",">"," ","B","a","r">> >>,
    << <<"F"," ","-","-",">"," ","B","a","r">> >>,
    << <<"p","a","r","t","i","c","i","p","a","n","t"," ","B","o","b">>,
       <<"A","l","i","c","e"," ","-",">"," ","B","o","b",":"," ","h","e","l","l","o">> >>,
    << <<"u","s","e","c","a","s","e"," ","B","a","r">> >>
}

InitBatch ==
    /\ pc = "next"
    /\ batch \in SeqsUpTo(BatchDiagrams, MaxBatch) \ { << >> }
    /\ reports = << >>
    /\ ExtractIdle
    /\ text = << >>
    /\ clean_content = << >>
    /\ primary_type = Idle
    /\ features = Idle /\ raw_scores = Idle /\ normalized_scores = Idle
    /\ result = Idle
    /\ elements = [t \in ELEMENT_TYPES |-> {}]
    /\ declared_names = {}
    /\ alias_map = << >>
    /\ inventory = EmptyInventory
    /\ relationships = Idle
    /\ confidence = << >>
    /\ validation = Idle

\* The loop takes the next file; nothing is reset here.
NextDiagram ==
    /\ pc = "next"
    /\ Len(reports) < Len(batch)
    /\ text' = batch[Len(reports) + 1]
    /\ pc' = "pipeline"
    /\ UNCHANGED <<extractVars, batch, reports, clean_content, primary_type, classifyVars, elementVars,
                   relationships, validateVars>>

\* The entry of the file is written: primary type, elements, relationships.
WriteReport ==
    /\ pc = "counted"
    /\ relationships' = count_relationships(text, primary_type)
    /\ reports' = Append(reports, [primary_type  |-> primary_type,
                                   confidence    |-> confidence,
                                   elements      |-> inventory,
                                   relationships |-> relationships'])
    /\ pc' = "next"
    /\ UNCHANGED <<extractVars, batch, text, clean_content, primary_type, classifyVars, elementVars,
                   validateVars>>

NextBatch ==
    \/ NextDiagram
    \/ PipelineClassify
    \/ CountUnsupported
    \/ ExplicitPass
    \/ BracketPass
    \/ LollipopPass
    \/ UsecasePass
    \/ CreolePass
    \/ ImplicitPass
    \/ WriteReport

SpecBatch == InitBatch /\ [][NextBatch]_vars

-----------------------------------------------------------------------------
(* Claims about SpecBatch *)

\* The collections a declaration pass starts from when nothing was registered.
EmptyCollections ==
    [elements |-> [t \in ELEMENT_TYPES |-> {}], declared_names |-> {}, alias_map |-> << >>]

\* The positions of the run whose entry is written.
ReportedPositions == 1..Len(reports)

\* C15: no state carries over between diagrams.  In a run over several
\* diagrams the entry written for a diagram (primary type, confidence, element
\* inventory, relationship count) is the entry written for the same diagram
\* wherever else it stands in the run, the first position, where it is
\* processed from the initial state, included; and the collections that the
\* explicit pass leaves are those it builds from empty collections on the text
\* of the current diagram alone.
C15_NoCarryOver ==
    /\ \A i \in ReportedPositions : \A j \in ReportedPositions :
         batch[i] = batch[j] => reports[i] = reports[j]
    /\ pc = "bracket" =>
         Extraction = extract_explicit(clean_content, EmptyCollections, primary_type)

\* A diagram processed first, then a different one that registers names and
\* an alias, then the first one again: all three entries are written.
C15_Witness ==
    /\ pc = "next"
    /\ Len(batch) = 3
    /\ Len(reports) = 3
    /\ batch[1] = batch[3]
    /\ batch[1] # batch[2]
    /\ reports[2].elements # EmptyInventory
    /\ reports[3].elements # EmptyInventory
    /\ reports[3].elements # reports[2].elements

-----------------------------------------------------------------------------
(* phase1/planumlda0/2.extract_by_content/extract_plantuml_content.py:
   the main process feeds blobs to the worker processes through input_queue,
   the workers send their results to the writer process through output_queue. *)

\* The poison pill, None in the code; the blobs are numbered from 1.
PoisonPill == 0

\* mp.Queue(maxsize=args.workers * 2)
QueueSize == 2 * main.num_workers

Workers == 1..main.num_workers

InitExtract ==
    /\ pc = "extract"
    /\ batch = Idle /\ reports = Idle
    /\ text = << >> /\ clean_content = << >> /\ result = << >>
    /\ primary_type = Idle
    /\ features = Idle /\ raw_scores = Idle /\ normalized_scores = Idle
    /\ elements = Idle /\ declared_names = Idle /\ alias_map = Idle /\ inventory = Idle
    /\ relationships = Idle /\ confidence = Idle /\ validation = Idle
    /\ input_queue = << >>
    /\ output_queue = << >>
    /\ \E n \in 1..MaxWorkers, total \in 0..MaxBlobs :
          /\ main = [pc |-> "feed", next |-> 1, pills |-> 0,
                     total |-> total, num_workers |-> n]
          /\ workers = [w \in 1..n |-> [pc |-> "init", item |-> PoisonPill]]
    /\ writer = [pc |-> "get", written |-> << >>]

extractOthers == <<pc, text, clean_content, primary_type, classifyVars, elementVars,
                   relationships, validateVars, batchVars>>

\* input_queue.put((blob_id, file_path)); put blocks while the queue is full.
FeedBlob ==
    /\ pc = "extract" /\ main.pc = "feed"
    /\ main.next <= main.total
    /\ Len(input_queue) < QueueSize
    /\ input_queue' = Append(input_queue, main.next)
    /\ main' = [main EXCEPT !.next = @ + 1]
    /\ UNCHANGED <<output_queue, workers, writer, extractOthers>>

\* for _ in range(args.workers): input_queue.put(None)
FeedPoisonPill ==
    /\ pc = "extract" /\ main.pc = "feed"
    /\ main.next > main.total
    /\ main.pills < main.num_workers
    /\ Len(input_queue) < QueueSize
    /\ input_queue' = Append(input_queue, PoisonPill)
    /\ main' = [main EXCEPT !.pills = @ + 1]
    /\ UNCHANGED <<output_queue, workers, writer, extractOthers>>

\* for p in workers: p.join()
JoinWorkers ==
    /\ pc = "extract" /\ main.pc = "feed"
    /\ main.next > main.total
    /\ main.pills = main.num_workers
    /\ \A w \in Workers : workers[w].pc = "exited"
    /\ main' = [main EXCEPT !.pc = "joined"]
    /\ UNCHANGED <<input_queue, output_queue, workers, writer, extractOthers>>

\* output_queue.put(None)
SendWriterPill ==
    /\ pc = "extract" /\ main.pc = "joined"
    /\ Len(output_queue) < QueueSize
    /\ output_queue' = Append(output_queue, PoisonPill)
    /\ main' = [main EXCEPT !.pc = "join_writer"]
    /\ UNCHANGED <<input_queue, workers, writer, extractOthers>>

\* writer.join()
JoinWriter ==
    /\ pc = "extract" /\ main.pc = "join_writer"
    /\ writer.pc = "exited"
    /\ main' = [main EXCEPT !.pc = "done"]
    /\ UNCHANGED <<input_queue, output_queue, workers, writer, extractOthers>>

\* woc = WocMapsLocal() succeeds.
WorkerInitialised(w) ==
    /\ pc = "extract" /\ w \in Workers /\ workers[w].pc = "init"
    /\ workers' = [workers EXCEPT ![w].pc = "get"]
    /\ UNCHANGED <<input_queue, output_queue, main, writer, extractOthers>>

\* woc = WocMapsLocal() raises: the worker logs the error and returns.
WorkerInitFails(w) ==
    /\ pc = "extract" /\ w \in Workers /\ workers[w].pc = "init"
    /\ workers' = [workers EXCEPT ![w].pc = "exited"]
    /\ UNCHANGED <<input_queue, output_queue, main, writer, extractOthers>>

\* item = input_queue.get(timeout=1) returns an item: the poison pill ends the
\* loop, a blob is processed.  (A timeout only repeats the loop.)
WorkerGet(w) ==
    /\ pc = "extract" /\ w \in Workers /\ workers[w].pc = "get"
    /\ input_queue # << >>
    /\ input_queue' = Tail(input_queue)
    /\ workers' = [workers EXCEPT
           ![w] = IF Head(input_queue) = PoisonPill
                  THEN [pc |-> "exited", item |-> PoisonPill]
                  ELSE [pc |-> "put", item |-> Head(input_queue)]]
    /\ UNCHANGED <<output_queue, main, writer, extractOthers>>

\* output_queue.put(result); put blocks while the queue is full.
WorkerPut(w) ==
    /\ pc = "extract" /\ w \in Workers /\ workers[w].pc = "put"
    /\ Len(output_queue) < QueueSize
    /\ output_queue' = Append(output_queue, workers[w].item)
    /\ workers' = [workers EXCEPT ![w] = [pc |-> "get", item |-> PoisonPill]]
    /\ UNCHANGED <<input_queue, main, writer, extractOthers>>

\* result = output_queue.get(timeout=1) returns a result, which is written.
WriterWrite ==
    /\ pc = "extract" /\ writer.pc = "get"
    /\ output_queue # << >>
    /\ Head(output_queue) # PoisonPill
    /\ output_queue' = Tail(output_queue)
    /\ writer' = [writer EXCEPT !.written = Append(@, Head(output_queue))]
    /\ UNCHANGED <<input_queue, main, workers, extractOthers>>

\* result = output_queue.get(timeout=1) returns the poison pill.
WriterExit ==
    /\ pc = "extract" /\ writer.pc = "get"
    /\ output_queue # << >>
    /\ Head(output_queue) = PoisonPill
    /\ output_queue' = Tail(output_queue)
    /\ writer' = [writer EXCEPT !.pc = "exited"]
    /\ UNCHANGED <<input_queue, main, workers, extractOthers>>

MainProcess == FeedBlob \/ FeedPoisonPill \/ JoinWorkers \/ SendWriterPill \/ JoinWriter

WorkerProcess(w) ==
    WorkerInitialised(w) \/ WorkerInitFails(w) \/ WorkerGet(w) \/ WorkerPut(w)

WriterProcess == WriterWrite \/ WriterExit

NextExtract ==
    \/ FeedBlob
    \/ FeedPoisonPill
    \/ JoinWorkers
    \/ SendWriterPill
    \/ JoinWriter
    \/ \E w \in 1..MaxWorkers : WorkerInitialised(w)
    \/ \E w \in 1..MaxWorkers : WorkerInitFails(w)
    \/ \E w \in 1..MaxWorkers : WorkerGet(w)
    \/ \E w \in 1..MaxWorkers : WorkerPut(w)
    \/ WriterWrite
    \/ WriterExit

SpecExtract == InitExtract /\ [][NextExtract]_vars

\* The operating system runs every process that is able to take a step.
SpecExtractFair ==
    /\ SpecExtract
    /\ WF_vars(MainProcess)
    /\ \A w \in 1..MaxWorkers : WF_vars(WorkerProcess(w))
    /\ WF_vars(WriterProcess)

\* C30 as stated: for any finite input, with the feeder not interrupted, the
\* run terminates, whether or not workers fail to initialise: the main process
\* enqueues every blob and one poison pill per worker, every worker exits, the
\* writer receives its poison pill and exits, and the main process has joined
\* them all.
C30_RunTerminates ==
    <>(/\ main.pc = "done"
       /\ main.next > main.total /\ main.pills = main.num_workers
       /\ \A w \in Workers : workers[w].pc = "exited"
       /\ writer.pc = "exited")
=============================================================================
